---------------------------- MODULE Spec2Model ----------------------------
(***************************************************************************)
(* CalBridge: the Event Creator (EC) with its retry loops and its task     *)
(* store, the ordered scheduler (task_scheduler.py), the Time Allotment    *)
(* agent (TA) that drives it, the Time Standardizer (TS), the Task         *)
(* Difficulty Analyzer (TD), the LLM Decomposer (LD) and the orchestrator  *)
(* that runs the stages in order (app.py).                                 *)
(*                                                                         *)
(* The specifications share the module; each leaves the variables of the   *)
(* others at their initial values:                                         *)
(*   Spec       the Event Creator: create_simple_task, create_complex_task,*)
(*              delete_by_id, delete_by_parent_id, one bridge request per  *)
(*              step, the store transaction in the step that ends the call *)
(*   SpecRetry  the two retry loops alone, with the full log of responses  *)
(*   SpecSched  schedule_ordered_with_constraints as a function of its     *)
(*              inputs                                                     *)
(*   SpecTA     schedule_simple_task / schedule_complex_task as functions  *)
(*              of the TS window, the bridge's events, the durations and   *)
(*              the machine's UTC offset                                   *)
(*   SpecTS     standardize / standardize_safe as functions of the AR      *)
(*              output, the timezone and the clock, and standardize run    *)
(*              again on its own output                                    *)
(*   SpecTD     analyze / analyze_safe as functions of the query, the      *)
(*              duration, the calendars and the LLM's answer               *)
(*   SpecLD     decompose / decompose_safe as functions of the TD output   *)
(*              and the LLM's answer                                       *)
(*   SpecPL     run_pipeline, one stage per step, every outcome each       *)
(*              stage's agent can have                                     *)
(*   SpecFW     _fetch_events_for_window against the bridge's GET /events, *)
(*              as a function of the event store, the clock and the window *)
(*   SpecCC     two runs of run_pipeline on one event store, their Time    *)
(*              Allotment and Event Creator stages interleaved             *)
(***************************************************************************)
EXTENDS Integers, Sequences, FiniteSets, TLC

VARIABLES
    \* ---- Event Creator: the SQLite store (committed state) ----
    tasks,        \* tasks table: id -> [title, parent_id]
    event_map,    \* event_map table: task_id -> [calendar_id, calendar_event_id]
    \* ---- Event Creator: the call in progress ----
    pc,           \* "idle" | "post" | "delete"
    req,          \* the call: [op, id, subs, cascade]
    queue,        \* subtasks (create) or child ids (delete) still to process
    attempt,      \* loop index of the retry loop in progress
    created,      \* create_complex_task: created list
    failed,       \* create_complex_task: failed list
    dres,         \* delete: the DeleteResult being filled
    txTasks,      \* tasks as seen through the open cursor (uncommitted)
    txMap,        \* event_map as seen through the open cursor (uncommitted)
    outcomes,     \* per task id: what the bridge answered in this call
    posted,       \* task ids for which a POST retry loop was run in this call
    \* ---- Event Creator: what the last calls returned ----
    result,       \* return value of the last completed call
    lastDone,     \* the last completed call
    prevDone,     \* summary of the call before it
    confirmed,    \* task ids the bridge confirmed an event for, not deleted since
    persisted,    \* ... whose create transaction also committed
    \* ---- retry loops alone ----
    rKind, rAttempt, rLog, rRet,
    \* ---- scheduler ----
    schedIn, schedOut,
    \* ---- Time Allotment ----
    taIn, taOut,
    \* ---- Time Standardizer ----
    tsIn, tsOut, tsAgain,
    \* ---- Task Difficulty Analyzer ----
    tdIn, tdOut,
    \* ---- LLM Decomposer ----
    ldIn, ldOut,
    \* ---- the orchestrator's run_pipeline ----
    plPc, plLocals, plTrace, plOut,
    \* ---- the bridge's GET /events behind _fetch_events_for_window ----
    fwIn, fwOut,
    \* ---- two pipeline requests on one calendar ----
    ccStore,      \* the events of the bridge's event store
    ccIn,         \* per request: what TS and TD handed to Time Allotment
    ccPc,         \* per request: "ta" | "ec" | "done"
    ccTa          \* per request: what Time Allotment returned

ecVars    == <<tasks, event_map, pc, req, queue, attempt, created, failed, dres,
               txTasks, txMap, outcomes, posted, result, lastDone, prevDone, confirmed, persisted>>
retryVars == <<rKind, rAttempt, rLog, rRet>>
schedVars == <<schedIn, schedOut>>
taVars    == <<taIn, taOut>>
tsVars    == <<tsIn, tsOut, tsAgain>>
tdVars    == <<tdIn, tdOut>>
ldVars    == <<ldIn, ldOut>>
plVars    == <<plPc, plLocals, plTrace, plOut>>
fwVars    == <<fwIn, fwOut>>
ccVars    == <<ccStore, ccIn, ccPc, ccTa>>
bridgeVars == <<fwVars, ccVars>>
agentVars == <<tsVars, tdVars, ldVars, plVars, bridgeVars>>
vars      == <<ecVars, retryVars, schedVars, taVars, agentVars>>

-----------------------------------------------------------------------------
(* Bounds of the model *)

MaxSub == 2        \* subtasks of the one parent the calls are about
MaxSlots == 2      \* free intervals handed to the scheduler
MaxEvents == 2     \* events in the bridge's answer to GET /events
MaxSubtasks == 2   \* subtasks of a complex task handed to Time Allotment

-----------------------------------------------------------------------------
(* Values *)

NULL == "NULL"     \* Python None / SQL NULL
EmptyFn == [x \in {} |-> NULL]

ChildPool == <<"c1", "c2", "c3", "c4", "c5", "c6">>
ParentId  == "p"
SimpleId  == "s"
ChildIds  == {ChildPool[i] : i \in 1..MaxSub}
TaskIds   == {ParentId, SimpleId} \cup ChildIds
Calendar  == "cal"

SeqToSet(s) == {s[i] : i \in 1..Len(s)}
NoDup(s) == \A i, j \in 1..Len(s) : i # j => s[i] # s[j]
SeqsNoDup(S, n) == {s \in UNION {[1..k -> S] : k \in 0..n} : NoDup(s)}
Perms(S) == {s \in [1..Cardinality(S) -> S] : NoDup(s)}
Restrict(f, S) == [x \in S |-> f[x]]
Put(f, k, v) == [x \in DOMAIN f \cup {k} |-> IF x = k THEN v ELSE f[x]]
Drop(f, k) == [x \in DOMAIN f \ {k} |-> f[x]]

-----------------------------------------------------------------------------
(* The bridge's answers to one HTTP request.                               *)
(* exc: requests raised RequestException; otherwise status and, for 200,   *)
(* body: "id" (JSON with an id / deleted: true), "noid" (JSON without id / *)
(* deleted: false), "empty" (the empty JSON object).                       *)

StatusCodes == {200, 400, 404, 500, 503}
Responses ==
    {[exc |-> TRUE, status |-> 0, body |-> "none"]}
    \cup {[exc |-> FALSE, status |-> 200, body |-> b] : b \in {"id", "noid", "empty"}}
    \cup {[exc |-> FALSE, status |-> s, body |-> "none"] : s \in StatusCodes \ {200}}

\* The answers the Event Creator's calls are run against: one of each class
\* the retry loops tell apart (event created / deleted, 200 without an id /
\* deleted: false, not found, a 4xx, a 5xx, a transport error).
EcResponses ==
    {r \in Responses : r.exc \/ r.status \in {200, 404, 503}} \
        {[exc |-> FALSE, status |-> 200, body |-> "empty"]}

max_retries == 3

\* a loop that also tries again after a 4xx answer
PostRetryStep_Retry4xx(att, resp) ==
    IF ~resp.exc /\ resp.status = 200
    THEN [again |-> FALSE, ok |-> TRUE, data |-> resp.body, err |-> "none"]
    ELSE IF att < max_retries - 1
         THEN [again |-> TRUE, ok |-> FALSE, data |-> "none", err |-> "none"]
         ELSE [again |-> FALSE, ok |-> FALSE, data |-> "none", err |-> "CalBridge error"]

\* One iteration of the loop of _calbridge_post_with_retry.
\* again: the loop continues with the next attempt; otherwise the call
\* returns (ok, data, err).
PostRetryStep(att, resp) ==
    IF resp.exc
    THEN IF att < max_retries - 1
         THEN [again |-> TRUE, ok |-> FALSE, data |-> "none", err |-> "none"]
         ELSE [again |-> FALSE, ok |-> FALSE, data |-> "none", err |-> "Network error"]
    ELSE IF resp.status = 200
    THEN [again |-> FALSE, ok |-> TRUE, data |-> resp.body, err |-> "none"]
    ELSE IF resp.status < 500
    THEN [again |-> FALSE, ok |-> FALSE, data |-> "none", err |-> "CalBridge error"]
    ELSE IF att < max_retries - 1
         THEN [again |-> TRUE, ok |-> FALSE, data |-> "none", err |-> "none"]
         ELSE [again |-> FALSE, ok |-> FALSE, data |-> "none",
               err |-> "CalBridge server error"]

\* One iteration of the loop of _calbridge_delete_with_retry.
\* The call returns (ok, was_404, err).
DeleteRetryStep(att, resp) ==
    IF resp.exc
    THEN IF att < max_retries - 1
         THEN [again |-> TRUE, ok |-> FALSE, was_404 |-> FALSE, err |-> "none"]
         ELSE [again |-> FALSE, ok |-> FALSE, was_404 |-> FALSE, err |-> "Network error"]
    ELSE IF resp.status = 200
    THEN [again |-> FALSE, ok |-> TRUE, was_404 |-> (resp.body # "id"), err |-> "none"]
    ELSE IF resp.status = 404
    THEN [again |-> FALSE, ok |-> TRUE, was_404 |-> TRUE, err |-> "none"]
    ELSE IF resp.status < 500
    THEN [again |-> FALSE, ok |-> FALSE, was_404 |-> FALSE, err |-> "CalBridge error"]
    ELSE IF att < max_retries - 1
         THEN [again |-> TRUE, ok |-> FALSE, was_404 |-> FALSE, err |-> "none"]
         ELSE [again |-> FALSE, ok |-> FALSE, was_404 |-> FALSE,
               err |-> "CalBridge server error"]


-----------------------------------------------------------------------------
(* The store: rows and the two upserts *)

TaskRow(title, parent_id) == [title |-> title, parent_id |-> parent_id]
MapRow(calendar_id, calendar_event_id) ==
    [calendar_id |-> calendar_id, calendar_event_id |-> calendar_event_id]

\* INSERT OR REPLACE INTO tasks (id, title, parent_id)
UpsertTask(T, id, title, parent_id) == Put(T, id, TaskRow(title, parent_id))

\* INSERT OR REPLACE INTO event_map: REPLACE first deletes every row that
\* conflicts on the primary key or on UNIQUE(calendar_id, calendar_event_id).
UpsertEventMap(M, task_id, calendar_id, calendar_event_id) ==
    LET keep == {k \in DOMAIN M :
                    /\ k # task_id
                    /\ ~(/\ M[k].calendar_id = calendar_id
                         /\ M[k].calendar_event_id = calendar_event_id)}
    IN  Put(Restrict(M, keep), task_id, MapRow(calendar_id, calendar_event_id))

\* SELECT id FROM tasks WHERE parent_id = ?
ChildrenOf(T, id) == {c \in DOMAIN T : T[c].parent_id = id}

-----------------------------------------------------------------------------
(* Inputs of the create calls (Time Allotment outputs) *)

GoodSlot == <<1, 2>>
Subtask(id, parent_id, title, slot) ==
    [title |-> title, slot |-> slot, id |-> id, parent_id |-> parent_id]
GoodSubtask(id) == Subtask(id, ParentId, "Step", GoodSlot)

SimpleTask(type, calendar, title, slot, id, parent_id) ==
    [type |-> type, calendar |-> calendar, title |-> title, slot |-> slot,
     id |-> id, parent_id |-> parent_id]
ComplexTask(type, calendar, title, id, parent_id, subtasks) ==
    [type |-> type, calendar |-> calendar, title |-> title, id |-> id,
     parent_id |-> parent_id, subtasks |-> subtasks]

GoodSimple == SimpleTask("simple", Calendar, "Call mom", GoodSlot, SimpleId, NULL)
BadSimples ==
    { SimpleTask("complex", Calendar, "Call mom", GoodSlot, SimpleId, NULL),
      SimpleTask("simple", "", "Call mom", GoodSlot, SimpleId, NULL),
      SimpleTask("simple", Calendar, "", GoodSlot, SimpleId, NULL),
      SimpleTask("simple", Calendar, "Call mom", <<>>, SimpleId, NULL),
      SimpleTask("simple", Calendar, "Call mom", <<2, 2>>, SimpleId, NULL),
      SimpleTask("simple", Calendar, "Call mom", <<2, 1>>, SimpleId, NULL),
      SimpleTask("simple", Calendar, "Call mom", GoodSlot, "", NULL),
      SimpleTask("simple", Calendar, "Call mom", GoodSlot, SimpleId, ParentId) }
SimpleInputs == {GoodSimple} \cup BadSimples

GoodComplex(ids) ==
    ComplexTask("complex", Calendar, "Plan trip", ParentId, NULL,
                [i \in 1..Len(ids) |-> GoodSubtask(ids[i])])
GoodComplexes == {GoodComplex(ids) : ids \in SeqsNoDup(ChildIds, MaxSub) \ {<<>>}}
OneSub == ChildPool[1]
BadComplexes ==
    { ComplexTask("simple", Calendar, "Plan trip", ParentId, NULL, <<GoodSubtask(OneSub)>>),
      ComplexTask("complex", "", "Plan trip", ParentId, NULL, <<GoodSubtask(OneSub)>>),
      ComplexTask("complex", Calendar, "", ParentId, NULL, <<GoodSubtask(OneSub)>>),
      ComplexTask("complex", Calendar, "Plan trip", "", NULL, <<GoodSubtask(OneSub)>>),
      ComplexTask("complex", Calendar, "Plan trip", ParentId, SimpleId, <<GoodSubtask(OneSub)>>),
      ComplexTask("complex", Calendar, "Plan trip", ParentId, NULL, <<>>),
      ComplexTask("complex", Calendar, "Plan trip", ParentId, NULL,
                  [i \in 1..6 |-> GoodSubtask(OneSub)]),
      ComplexTask("complex", Calendar, "Plan trip", ParentId, NULL,
                  <<Subtask(OneSub, ParentId, "", GoodSlot)>>),
      ComplexTask("complex", Calendar, "Plan trip", ParentId, NULL,
                  <<Subtask(OneSub, ParentId, "Step", <<>>)>>),
      ComplexTask("complex", Calendar, "Plan trip", ParentId, NULL,
                  <<Subtask("", ParentId, "Step", GoodSlot)>>),
      ComplexTask("complex", Calendar, "Plan trip", ParentId, NULL,
                  <<Subtask(OneSub, SimpleId, "Step", GoodSlot)>>),
      ComplexTask("complex", Calendar, "Plan trip", ParentId, NULL,
                  <<Subtask(OneSub, ParentId, "Step", <<2, 2>>)>>) }
ComplexInputs == GoodComplexes \cup BadComplexes

\* Python truthiness of an optional string: None and "" are falsy
Falsy(v) == v = NULL \/ v = ""

\* _validate_simple_task without its last test (start < end)
ValidateSimpleTask_NoSlotOrder(ta) ==
    IF ta.type # "simple" THEN "Expected simple task"
    ELSE IF Falsy(ta.calendar) THEN "Missing calendar ID"
    ELSE IF Falsy(ta.title) THEN "Missing title"
    ELSE IF Len(ta.slot) = 0 \/ Len(ta.slot) # 2 THEN "Missing or invalid slot"
    ELSE IF Falsy(ta.id) THEN "Missing task ID"
    ELSE IF ta.parent_id # NULL THEN "Simple task must have parent_id = null"
    ELSE "ok"

\* _validate_simple_task: "ok" or the first error
ValidateSimpleTask(ta) ==
    IF ta.type # "simple" THEN "Expected simple task"
    ELSE IF Falsy(ta.calendar) THEN "Missing calendar ID"
    ELSE IF Falsy(ta.title) THEN "Missing title"
    ELSE IF Len(ta.slot) = 0 \/ Len(ta.slot) # 2 THEN "Missing or invalid slot"
    ELSE IF Falsy(ta.id) THEN "Missing task ID"
    ELSE IF ta.parent_id # NULL THEN "Simple task must have parent_id = null"
    ELSE IF ta.slot[1] >= ta.slot[2] THEN "Invalid slot: start >= end"
    ELSE "ok"

\* the body of the loop over the subtasks in _validate_complex_task
ValidateSubtask(st, parent_id) ==
    IF Falsy(st.title) THEN "Subtask missing title"
    ELSE IF Len(st.slot) = 0 \/ Len(st.slot) # 2 THEN "Subtask missing or invalid slot"
    ELSE IF Falsy(st.id) THEN "Subtask missing ID"
    ELSE IF st.parent_id # parent_id THEN "Subtask parent_id must match parent ID"
    ELSE IF st.slot[1] >= st.slot[2] THEN "Subtask invalid slot: start >= end"
    ELSE "ok"

\* _validate_complex_task: "ok" or the first error
ValidateComplexTask(ta) ==
    IF ta.type # "complex" THEN "Expected complex task"
    ELSE IF Falsy(ta.calendar) THEN "Missing calendar ID"
    ELSE IF Falsy(ta.title) THEN "Missing title"
    ELSE IF Falsy(ta.id) THEN "Missing parent task ID"
    ELSE IF ta.parent_id # NULL THEN "Parent task must have parent_id = null"
    ELSE IF Len(ta.subtasks) < 1 THEN "Complex task must have at least 1 subtask"
    ELSE IF Len(ta.subtasks) > 5 THEN "Complex task cannot have more than 5 subtasks"
    ELSE LET bad == {i \in 1..Len(ta.subtasks) :
                        ValidateSubtask(ta.subtasks[i], ta.id) # "ok"}
         IN  IF bad = {} THEN "ok"
             ELSE ValidateSubtask(ta.subtasks[CHOOSE i \in bad : \A j \in bad : i <= j],
                                  ta.id)


-----------------------------------------------------------------------------
(* Event Creator: return values and the record of a completed call *)

CreateResult(success, task_id, calendar_event_id, error) ==
    [kind |-> "CreateResult", success |-> success, task_id |-> task_id,
     calendar_event_id |-> calendar_event_id, error |-> error]
ComplexResult(success, error, cr, fl) ==
    [kind |-> "ComplexResult", success |-> success, error |-> error,
     created |-> cr, failed |-> fl]
DeleteResult(target, deleted, skipped, errors) ==
    [kind |-> "DeleteResult", target |-> target, deleted |-> deleted,
     skipped |-> skipped, errors |-> errors]
Raised == [kind |-> "raised"]
NoResult == [kind |-> "none"]
EmptyDres == [deleted |-> <<>>, skipped |-> <<>>, errors |-> <<>>]

NoInput == [type |-> "none"]
NoReq == [op |-> "none", id |-> NULL, subs |-> <<>>, cascade |-> FALSE, input |-> NoInput]
NoSummary == [op |-> "none", id |-> NULL, n |-> 0]
\* what the next call needs to know of this one: a call that did all it was
\* asked to (good), else nothing
Summary(op, id, good, n) ==
    IF good THEN [op |-> op, id |-> id, n |-> n] ELSE NoSummary
Done(op, id, subs, valid, post, outc, committed, summary) ==
    [op |-> op, id |-> id, subs |-> subs, valid |-> valid, posted |-> post,
     outcomes |-> outc, committed |-> committed, summary |-> summary,
     fresh |-> FALSE, unchanged |-> TRUE]
NoDone == Done("none", NULL, <<>>, FALSE, <<>>, EmptyFn, FALSE, NoSummary)

\* The identifier the bridge gives the event it creates for a task (the id in
\* the response of POST /add).  The bridge never gives two live events one
\* identifier, and the store holds at most one event per task, so the event is
\* named after the task whose POST created it: rows of different tasks carry
\* different identifiers, as with the bridge.
AllIds == <<"p", "s", "c1", "c2", "c3", "c4", "c5", "c6">>
EventNames == <<"ev-p", "ev-s", "ev-c1", "ev-c2", "ev-c3", "ev-c4", "ev-c5", "ev-c6">>
BridgeEventId(task_id) ==
    EventNames[CHOOSE i \in 1..Len(AllIds) : AllIds[i] = task_id]

Ids(entries) == {entries[i].task_id : i \in 1..Len(entries)}

\* a call that needs the bridge begins: the previous call's return value is
\* no longer the last one
Begin ==
    /\ prevDone' = lastDone.summary
    /\ lastDone' = NoDone
    /\ result' = NoResult

\* the call returns: the store is as committed, the call's locals are gone
Return(newTasks, newMap, res, done, conf, pers) ==
    /\ tasks' = newTasks
    /\ event_map' = newMap
    /\ result' = res
    /\ lastDone' = [done EXCEPT !.unchanged = newTasks = tasks /\ newMap = event_map]
    /\ prevDone' = IF pc = "idle" THEN lastDone.summary ELSE prevDone
    /\ confirmed' = conf
    /\ persisted' = pers
    /\ pc' = "idle"
    /\ req' = NoReq
    /\ queue' = <<>>
    /\ attempt' = 0
    /\ created' = <<>>
    /\ failed' = <<>>
    /\ dres' = EmptyDres
    /\ txTasks' = newTasks
    /\ txMap' = newMap
    /\ outcomes' = EmptyFn
    /\ posted' = <<>>

-----------------------------------------------------------------------------
(* create_simple_task *)

\* lines 299-316: validation, then the payload; the first POST is the next step
CreateSimpleTask(ta) ==
    /\ pc = "idle"
    /\ LET error == ValidateSimpleTask(ta)
       IN  IF error # "ok"
           THEN Return(tasks, event_map,
                       CreateResult(FALSE, IF ta.id = NULL THEN "" ELSE ta.id, NULL, error),
                       Done("create_simple_task", ta.id, <<>>, FALSE, <<>>, EmptyFn,
                            FALSE, NoSummary),
                       confirmed, persisted)
           ELSE /\ pc' = "post"
                /\ req' = [op |-> "create_simple_task", id |-> ta.id, subs |-> <<>>,
                           cascade |-> FALSE, input |-> ta]
                /\ queue' = <<ta>>
                /\ attempt' = 0
                /\ posted' = <<ta.id>>
                /\ Begin
                /\ UNCHANGED <<tasks, event_map, created, failed, dres, txTasks, txMap,
                               outcomes, confirmed, persisted>>

\* lines 328-352: the upsert of the task and its event_map row in one transaction
SimpleUpsertTasks(T, ta) == UpsertTask(T, ta.id, ta.title, NULL)
SimpleUpsertMap_NoRow(M, ta, calendar_event_id) == M
SimpleUpsertMap(M, ta, calendar_event_id) ==
    UpsertEventMap(M, ta.id, ta.calendar, calendar_event_id)

\* lines 319-352: what create_simple_task does once the retry call has returned
SimpleAfterPost(ta, st, dbOk) ==
    LET done(committed, outc) ==
            Done("create_simple_task", ta.id, <<>>, TRUE, posted,
                 (ta.id :> outc), committed, NoSummary)
    IN  IF ~st.ok
        THEN Return(tasks, event_map, CreateResult(FALSE, ta.id, NULL, st.err),
                    done(FALSE, st.err), confirmed, persisted)
        ELSE IF st.data # "id"
        THEN Return(tasks, event_map,
                    CreateResult(FALSE, ta.id, NULL, "CalBridge did not return event ID"),
                    done(FALSE, "no event id"), confirmed, persisted)
        ELSE LET ev == BridgeEventId(ta.id)
             IN  IF dbOk
                 THEN Return(SimpleUpsertTasks(tasks, ta),
                             SimpleUpsertMap(event_map, ta, ev),
                             CreateResult(TRUE, ta.id, ev, NULL),
                             done(TRUE, "created"),
                             confirmed \cup {ta.id}, persisted \cup {ta.id})
                 ELSE Return(tasks, event_map,
                             CreateResult(FALSE, ta.id, NULL, "Database error"),
                             done(FALSE, "created"),
                             confirmed \cup {ta.id}, persisted)

-----------------------------------------------------------------------------
(* create_complex_task *)

\* lines 364-380
CreateComplexTask(ta) ==
    /\ pc = "idle"
    /\ LET error == ValidateComplexTask(ta)
       IN  IF error # "ok"
           THEN Return(tasks, event_map, ComplexResult(FALSE, error, <<>>, <<>>),
                       Done("create_complex_task", ta.id, <<>>, FALSE, <<>>, EmptyFn,
                            FALSE, NoSummary),
                       confirmed, persisted)
           ELSE /\ pc' = "post"
                /\ req' = [op |-> "create_complex_task", id |-> ta.id,
                           subs |-> [i \in 1..Len(ta.subtasks) |-> ta.subtasks[i].id],
                           cascade |-> FALSE, input |-> ta]
                /\ queue' = ta.subtasks
                /\ attempt' = 0
                /\ created' = <<>>
                /\ failed' = <<>>
                /\ outcomes' = EmptyFn
                /\ posted' = <<ta.subtasks[1].id>>
                /\ Begin
                /\ UNCHANGED <<tasks, event_map, dres, txTasks, txMap, confirmed,
                               persisted>>

\* lines 400-416: the retry call has returned for one subtask
CreatedAfter_Always(cr, subtask, st, ev) ==
    Append(cr, [task_id |-> subtask.id, calendar_event_id |-> ev])
CreatedAfter(cr, subtask, st, ev) ==
    IF st.ok /\ st.data # "empty" /\ st.data = "id"
    THEN Append(cr, [task_id |-> subtask.id, calendar_event_id |-> ev])
    ELSE cr
FailedAfter(fl, subtask, st) ==
    IF st.ok /\ st.data # "empty"
    THEN IF st.data = "id" THEN fl
         ELSE Append(fl, [task_id |-> subtask.id,
                          error |-> "CalBridge did not return event ID"])
    ELSE Append(fl, [task_id |-> subtask.id,
                     error |-> IF st.err = "none" THEN "Unknown error" ELSE st.err])

\* lines 423-447: parent row, then one tasks row and one event_map row per
\* created entry
\* line 435: the title of the first subtask with that id, "" when there is none
SubtaskTitle(subtasks, id) ==
    LET hit == {i \in 1..Len(subtasks) : subtasks[i].id = id}
    IN  IF hit = {} THEN ""
        ELSE subtasks[CHOOSE i \in hit : \A j \in hit : i <= j].title
RECURSIVE ComplexUpsertTasks(_, _, _)
ComplexUpsertTasks(T, ta, cr) ==
    IF cr = <<>> THEN T
    ELSE ComplexUpsertTasks(UpsertTask(T, cr[1].task_id,
                                       SubtaskTitle(ta.subtasks, cr[1].task_id), ta.id),
                            ta, Tail(cr))
RECURSIVE ComplexUpsertMap(_, _, _)
ComplexUpsertMap(M, ta, cr) ==
    IF cr = <<>> THEN M
    ELSE ComplexUpsertMap(UpsertEventMap(M, cr[1].task_id, ta.calendar,
                                         cr[1].calendar_event_id), ta, Tail(cr))
ComplexCommitTasks(T, ta, cr) ==
    ComplexUpsertTasks(UpsertTask(T, ta.id, ta.title, NULL), ta, cr)

\* no row of the parent or of its subtasks is in the store
FreshFamily(T, M, parent_id, subs) ==
    /\ parent_id \notin DOMAIN T
    /\ ChildrenOf(T, parent_id) = {}
    /\ SeqToSet(subs) \cap (DOMAIN T \cup DOMAIN M) = {}
    /\ parent_id \notin DOMAIN M

\* a store error after which the parent's row stays written (no rollback)
ComplexFinish_NoRollback(cr, fl, outc, conf, dbOk) ==
    LET fresh == FreshFamily(tasks, event_map, req.id, req.subs)
        done == [Done("create_complex_task", req.id, req.subs, TRUE, posted, outc, dbOk,
                      Summary("create_complex_task", req.id, FALSE, Len(cr)))
                 EXCEPT !.fresh = fresh]
    IN  IF dbOk
        THEN Return(ComplexCommitTasks(tasks, req.input, cr),
                    ComplexUpsertMap(event_map, req.input, cr),
                    ComplexResult(fl = <<>>, NULL, cr, fl), done,
                    conf, persisted \cup Ids(cr))
        ELSE Return(UpsertTask(tasks, req.id, req.input.title, NULL), event_map,
                    ComplexResult(FALSE, "Database error", cr, fl), done, conf, persisted)
\* lines 418-465: every subtask has been tried; the transaction and the return
ComplexFinish(cr, fl, outc, conf, dbOk) ==
    LET fresh == FreshFamily(tasks, event_map, req.id, req.subs)
        good == dbOk /\ fl = <<>> /\ fresh
        done == [Done("create_complex_task", req.id, req.subs, TRUE, posted, outc, dbOk,
                      Summary("create_complex_task", req.id, good, Len(cr)))
                 EXCEPT !.fresh = fresh]
    IN  IF dbOk
        THEN Return(ComplexCommitTasks(tasks, req.input, cr),
                    ComplexUpsertMap(event_map, req.input, cr),
                    ComplexResult(fl = <<>>, NULL, cr, fl), done,
                    conf, persisted \cup Ids(cr))
        ELSE Return(tasks, event_map, ComplexResult(FALSE, "Database error", cr, fl),
                    done, conf, persisted)

\* One requests.post of the retry loop that a create call is in, and what the
\* call does with the answer up to its next request or its return.
PostAttempt(resp) ==
    /\ pc = "post"
    /\ LET st  == PostRetryStep(attempt, resp)
           cur == Head(queue)
           gotId == st.ok /\ st.data = "id"
           ev  == IF gotId THEN BridgeEventId(cur.id) ELSE NULL
       IN  IF st.again
           THEN /\ attempt' = attempt + 1
                /\ UNCHANGED <<tasks, event_map, pc, req, queue, created, failed, dres,
                               txTasks, txMap, outcomes, posted, result, lastDone,
                               prevDone, confirmed, persisted>>
           ELSE IF req.op = "create_simple_task"
           THEN \E dbOk \in BOOLEAN : SimpleAfterPost(cur, st, dbOk)
           ELSE LET cr   == CreatedAfter(created, cur, st, ev)
                    fl   == FailedAfter(failed, cur, st)
                    outc == Put(outcomes, cur.id,
                                IF gotId THEN "created"
                                ELSE IF st.ok THEN "no event id" ELSE st.err)
                    conf == IF gotId THEN confirmed \cup {cur.id} ELSE confirmed
                IN  IF Len(queue) > 1
                    THEN /\ queue' = Tail(queue)
                         /\ attempt' = 0
                         /\ created' = cr
                         /\ failed' = fl
                         /\ outcomes' = outc
                         /\ posted' = Append(posted, queue[2].id)
                         /\ confirmed' = conf
                         /\ UNCHANGED <<tasks, event_map, pc, req, dres, txTasks, txMap,
                                        result, lastDone, prevDone, persisted>>
                    ELSE \E dbOk \in BOOLEAN : ComplexFinish(cr, fl, outc, conf, dbOk)


-----------------------------------------------------------------------------
(* delete_by_id, delete_by_parent_id, _delete_child_task *)

\* _delete_child_task for the children at the head of the list that have no
\* event_map row (lines 615-618): no bridge request, the tasks row goes, and the
\* caller lists the child under deleted with calendar_event_id "" (line 507).
RECURSIVE SkipRowless(_, _, _, _, _)
SkipRowless(q, T, M, d, outc) ==
    IF q = <<>> \/ q[1] \in DOMAIN M
    THEN [queue |-> q, txTasks |-> T, dres |-> d, outcomes |-> outc]
    ELSE SkipRowless(Tail(q), Drop(T, q[1]), M,
                     [d EXCEPT !.deleted =
                         Append(@, [task_id |-> q[1], calendar_event_id |-> ""])],
                     Put(outc, q[1], "no event_map"))

\* lines 504-518 / 526-540 / 571-585: where the caller lists a child
ListChild_AllSkipped(d, child_id, child_result) ==
    IF child_result.success
    THEN [d EXCEPT !.skipped =
             Append(@, [task_id |-> child_id, reason |-> "already_deleted"])]
    ELSE [d EXCEPT !.errors =
             Append(@, [task_id |-> child_id, reason |-> child_result.error])]
ListChild(d, child_id, child_result) ==
    IF child_result.success
    THEN [d EXCEPT !.deleted =
             Append(@, [task_id |-> child_id,
                        calendar_event_id |-> child_result.calendar_event_id])]
    ELSE IF child_result.was_404
    THEN [d EXCEPT !.skipped =
             Append(@, [task_id |-> child_id, reason |-> "already_deleted"])]
    ELSE [d EXCEPT !.errors =
             Append(@, [task_id |-> child_id, reason |-> child_result.error])]

\* lines 625-639: what _delete_child_task returns once the retry call returned
ChildResult(st, calendar_event_id) ==
    IF st.ok
    THEN [success |-> TRUE, was_404 |-> st.was_404,
          calendar_event_id |-> calendar_event_id, error |-> NULL]
    ELSE [success |-> FALSE, was_404 |-> FALSE, calendar_event_id |-> "",
          error |-> st.err]

\* lines 520-521 / 587-593 / 542-545: the parent row (cascade), commit, return
DeleteFinish(rq, T, M, d, outc, dbOk) ==
    LET target   == IF rq.op = "delete_by_id" THEN "id" ELSE "parent_id"
        finalT   == IF rq.cascade THEN Drop(T, rq.id) ELSE T
        gone     == Ids(d.deleted)
        good     == /\ dbOk
                    /\ rq.op = "delete_by_parent_id"
                    /\ d.deleted # <<>>
                    /\ rq.id \notin DOMAIN finalT
                    /\ ChildrenOf(finalT, rq.id) = {}
        done     == Done(rq.op, rq.id, rq.subs, TRUE, <<>>, outc, dbOk,
                         Summary(rq.op, rq.id, good, 0))
    IN  IF dbOk
        THEN Return(finalT, M, DeleteResult(target, d.deleted, d.skipped, d.errors),
                    done, confirmed \ gone, persisted \ gone)
        ELSE Return(tasks, event_map, Raised, done, confirmed, persisted)

\* the children in the order the cursor returned them are processed up to the
\* first one that needs a bridge request
DeleteContinue(rq, q, T, M, d, outc) ==
    LET a == SkipRowless(q, T, M, d, outc)
    IN  IF a.queue # <<>>
        THEN /\ pc' = "delete"
             /\ req' = rq
             /\ queue' = a.queue
             /\ attempt' = 0
             /\ txTasks' = a.txTasks
             /\ txMap' = M
             /\ dres' = a.dres
             /\ outcomes' = a.outcomes
             /\ IF pc = "idle" THEN Begin ELSE UNCHANGED <<result, lastDone, prevDone>>
             /\ UNCHANGED <<tasks, event_map, created, failed, posted, confirmed,
                            persisted>>
        ELSE \E dbOk \in BOOLEAN :
                DeleteFinish(rq, a.txTasks, M, a.dres, a.outcomes, dbOk)

\* delete_by_id, lines 477-502 / 524
DeleteById(task_id) ==
    /\ pc = "idle"
    /\ IF task_id \notin DOMAIN tasks
       THEN Return(tasks, event_map,
                   DeleteResult("id", <<>>,
                                <<[task_id |-> task_id, reason |-> "not_found"]>>, <<>>),
                   Done("delete_by_id", task_id, <<>>, TRUE, <<>>, EmptyFn, FALSE,
                        NoSummary),
                   confirmed, persisted)
       ELSE LET children == ChildrenOf(tasks, task_id)
            IN  \E order \in (IF children # {} THEN Perms(children) ELSE {<<task_id>>}) :
                    DeleteContinue([op |-> "delete_by_id", id |-> task_id, subs |-> order,
                                    cascade |-> children # {}, input |-> NoInput],
                                   order, tasks, event_map, EmptyDres, EmptyFn)

\* delete_by_parent_id, lines 557-569
DeleteByParentId(parent_id) ==
    /\ pc = "idle"
    /\ \E order \in Perms(ChildrenOf(tasks, parent_id)) :
          DeleteContinue([op |-> "delete_by_parent_id", id |-> parent_id, subs |-> order,
                          cascade |-> TRUE, input |-> NoInput],
                         order, tasks, event_map, EmptyDres, EmptyFn)

\* One requests.post to /delete of the retry loop that _delete_child_task is
\* in, and what the delete call does with the answer up to its next request
\* or its return.
DeleteAttempt(resp) ==
    /\ pc = "delete"
    /\ LET st    == DeleteRetryStep(attempt, resp)
           child == Head(queue)
           cres  == ChildResult(st, txMap[child].calendar_event_id)
       IN  IF st.again
           THEN /\ attempt' = attempt + 1
                /\ UNCHANGED <<tasks, event_map, pc, req, queue, created, failed, dres,
                               txTasks, txMap, outcomes, posted, result, lastDone,
                               prevDone, confirmed, persisted>>
           ELSE DeleteContinue(req, Tail(queue),
                               IF st.ok THEN Drop(txTasks, child) ELSE txTasks,
                               IF st.ok THEN Drop(txMap, child) ELSE txMap,
                               ListChild(dres, child, cres),
                               Put(outcomes, child,
                                   IF st.ok
                                   THEN (IF ~st.was_404 THEN "deleted"
                                         ELSE IF resp.status = 404 THEN "404"
                                         ELSE "deleted: false")
                                   ELSE st.err))

-----------------------------------------------------------------------------
(* The Event Creator's specification *)

NoSched == [kind |-> "none"]

RetryIdle ==
    /\ rKind = "none" /\ rAttempt = 0 /\ rLog = <<>> /\ rRet = [state |-> "none"]
SchedIdle == schedIn = NoSched /\ schedOut = NoSched
TAIdle == taIn = NoSched /\ taOut = NoSched
TSIdle == tsIn = NoSched /\ tsOut = NoSched /\ tsAgain = NoSched
TDIdle == tdIn = NoSched /\ tdOut = NoSched
LDIdle == ldIn = NoSched /\ ldOut = NoSched
PLIdle == plPc = "idle" /\ plLocals = NoSched /\ plTrace = <<>> /\ plOut = NoSched
FWIdle == fwIn = NoSched /\ fwOut = NoSched
CCIdle == ccStore = <<>> /\ ccIn = NoSched /\ ccPc = NoSched /\ ccTa = NoSched
BridgeIdle == FWIdle /\ CCIdle
AgentsIdle == TSIdle /\ TDIdle /\ LDIdle /\ PLIdle /\ BridgeIdle

InitEC ==
    /\ tasks = EmptyFn
    /\ event_map = EmptyFn
    /\ pc = "idle"
    /\ req = NoReq
    /\ queue = <<>>
    /\ attempt = 0
    /\ created = <<>>
    /\ failed = <<>>
    /\ dres = EmptyDres
    /\ txTasks = EmptyFn
    /\ txMap = EmptyFn
    /\ outcomes = EmptyFn
    /\ posted = <<>>
    /\ result = NoResult
    /\ lastDone = NoDone
    /\ prevDone = NoSummary
    /\ confirmed = {}
    /\ persisted = {}

Init == InitEC /\ RetryIdle /\ SchedIdle /\ TAIdle /\ AgentsIdle

Next ==
    \/ \E ta \in SimpleInputs : CreateSimpleTask(ta) /\ UNCHANGED <<retryVars, schedVars, taVars, agentVars>>
    \/ \E ta \in ComplexInputs : CreateComplexTask(ta) /\ UNCHANGED <<retryVars, schedVars, taVars, agentVars>>
    \/ \E resp \in EcResponses : PostAttempt(resp) /\ UNCHANGED <<retryVars, schedVars, taVars, agentVars>>
    \/ \E id \in TaskIds : DeleteById(id) /\ UNCHANGED <<retryVars, schedVars, taVars, agentVars>>
    \/ \E id \in TaskIds : DeleteByParentId(id) /\ UNCHANGED <<retryVars, schedVars, taVars, agentVars>>
    \/ \E resp \in EcResponses : DeleteAttempt(resp) /\ UNCHANGED <<retryVars, schedVars, taVars, agentVars>>

Spec == Init /\ [][Next]_vars

-----------------------------------------------------------------------------
(* The two retry loops alone: one request per step, every answer the bridge  *)
(* can give, and the log of the answers of the call in progress              *)

\* _calbridge_post_with_retry / _calbridge_delete_with_retry is called
RetryCall(kind) ==
    /\ rRet.state # "running"
    /\ rKind' = kind
    /\ rAttempt' = 0
    /\ rLog' = <<>>
    /\ rRet' = [state |-> "running"]

\* one requests.post to /add and the rest of the loop iteration
RetryPost(resp) ==
    /\ rKind = "post"
    /\ rRet.state = "running"
    /\ rAttempt < max_retries
    /\ LET st == PostRetryStep(rAttempt, resp)
       IN  /\ rLog' = Append(rLog, resp)
           /\ IF st.again
              THEN rAttempt' = rAttempt + 1 /\ UNCHANGED rRet
              ELSE /\ rRet' = [state |-> "returned", ok |-> st.ok, err |-> st.err]
                   /\ UNCHANGED rAttempt
    /\ UNCHANGED rKind

\* one requests.post to /delete and the rest of the loop iteration
RetryDelete(resp) ==
    /\ rKind = "delete"
    /\ rRet.state = "running"
    /\ rAttempt < max_retries
    /\ LET st == DeleteRetryStep(rAttempt, resp)
       IN  /\ rLog' = Append(rLog, resp)
           /\ IF st.again
              THEN rAttempt' = rAttempt + 1 /\ UNCHANGED rRet
              ELSE /\ rRet' = [state |-> "returned", ok |-> st.ok, err |-> st.err]
                   /\ UNCHANGED rAttempt
    /\ UNCHANGED rKind

InitRetry == InitEC /\ RetryIdle /\ SchedIdle /\ TAIdle /\ AgentsIdle

NextRetry ==
    \/ \E kind \in {"post", "delete"} :
          RetryCall(kind) /\ UNCHANGED <<ecVars, schedVars, taVars, agentVars>>
    \/ \E resp \in Responses : RetryPost(resp) /\ UNCHANGED <<ecVars, schedVars, taVars, agentVars>>
    \/ \E resp \in Responses : RetryDelete(resp) /\ UNCHANGED <<ecVars, schedVars, taVars, agentVars>>

SpecRetry == InitRetry /\ [][NextRetry]_vars

\* the bridge answered with a 5xx status, or the request raised
C2_Retryable(resp) == resp.exc \/ resp.status >= 500

-----------------------------------------------------------------------------
(* task_scheduler.py.  A naive datetime is the number of minutes since the   *)
(* midnight that begins day 0 (a Monday); a date is the day's index; a time  *)
(* of day is a number of minutes since midnight; an Optional is a sequence   *)
(* of length 0 or 1.                                                         *)

MinutesPerDay == 1440
work_start_hour == 6
work_end_hour == 23

Min(a, b) == IF b < a THEN b ELSE a
Max(a, b) == IF b > a THEN b ELSE a
Abs(x) == IF x < 0 THEN -x ELSE x

RECURSIVE Concat(_)
Concat(ss) == IF ss = <<>> THEN <<>> ELSE Head(ss) \o Concat(Tail(ss))
RECURSIVE Sum(_)
Sum(ns) == IF ns = <<>> THEN 0 ELSE Head(ns) + Sum(Tail(ns))

\* Python's sorted(s, key = ...): ascending by key (tuples compare
\* lexicographically), elements with equal keys keep their order
LexLess(k1, k2) ==
    \E i \in 1..Len(k1) : (\A j \in 1..(i - 1) : k1[j] = k2[j]) /\ k1[i] < k2[i]
Rank(keys, i) ==
    1 + Cardinality({j \in 1..Len(keys) :
                        LexLess(keys[j], keys[i]) \/ (keys[j] = keys[i] /\ j < i)})
SortByKey(s, keys) ==
    [p \in 1..Len(s) |-> s[CHOOSE i \in 1..Len(s) : Rank(keys, i) = p]]
\* list.sort() of a list of (start, end) tuples
SortIntervals(ivs) == SortByKey(ivs, ivs)

day_start(dt) == (dt \div MinutesPerDay) * MinutesPerDay
next_midnight(dt) == day_start(dt) + MinutesPerDay
date(dt) == dt \div MinutesPerDay
weekday(d) == d % 7
combine(d, t) == d * MinutesPerDay + t

RECURSIVE split_interval_by_midnight(_, _)
split_interval_by_midnight(a, b) ==
    IF a < b
    THEN <<<<a, Min(b, next_midnight(a))>>>>
             \o split_interval_by_midnight(Min(b, next_midnight(a)), b)
    ELSE <<>>

intersect(iv1, iv2) ==
    LET s == Max(iv1[1], iv2[1])
        e == Min(iv1[2], iv2[2])
    IN  IF s < e THEN <<<<s, e>>>> ELSE <<>>

\* the first loop of subtract_block: what is left of each interval
RECURSIVE SubtractEach(_, _, _)
SubtractEach(intervals, s, e) ==
    IF intervals = <<>> THEN <<>>
    ELSE LET a == intervals[1][1]
             b == intervals[1][2]
         IN  (IF e <= a \/ s >= b
              THEN <<intervals[1]>>
              ELSE (IF a < s THEN <<<<a, s>>>> ELSE <<>>)
                       \o (IF e < b THEN <<<<e, b>>>> ELSE <<>>))
                 \o SubtractEach(Tail(intervals), s, e)

\* the second loop of subtract_block: touching or overlapping neighbours merge
RECURSIVE Merge(_, _)
Merge(merged, out) ==
    IF out = <<>> THEN merged
    ELSE LET iv == out[1]
         IN  IF merged = <<>> \/ merged[Len(merged)][2] < iv[1]
             THEN Merge(Append(merged, iv), Tail(out))
             ELSE Merge([merged EXCEPT ![Len(merged)] = <<@[1], Max(@[2], iv[2])>>],
                        Tail(out))

subtract_block(intervals, s, e) ==
    Merge(<<>>, SortIntervals(SubtractEach(intervals, s, e)))

\* a search that takes the first interval whether or not it is long enough
find_earliest_block_AnyFit(intervals, duration_min) ==
    IF intervals = <<>> THEN <<>>
    ELSE <<<<intervals[1][1], intervals[1][1] + duration_min>>>>
find_earliest_block(intervals, duration_min) ==
    LET fit == {i \in 1..Len(intervals) :
                   intervals[i][2] - intervals[i][1] >= duration_min}
    IN  IF fit = {} THEN <<>>
        ELSE LET i == CHOOSE i \in fit : \A j \in fit : i <= j
             IN  <<<<intervals[i][1], intervals[i][1] + duration_min>>>>

\* Python's round() of the quotient num / den: halves go to the even neighbour
RoundHalfEven(num, den) ==
    LET q == num \div den
        r == num % den
    IN  IF 2 * r < den THEN q
        ELSE IF 2 * r > den THEN q + 1
        ELSE IF q % 2 = 0 THEN q ELSE q + 1

choose_even_spread_targets(num_tasks, num_days) ==
    IF num_tasks = 1 THEN <<num_days \div 2>>
    ELSE [k \in 1..num_tasks |-> RoundHalfEven((k - 1) * (num_days - 1), num_tasks - 1)]

\* ConstraintAdder: the blackouts are lists of <<weekday or date, start, end>>
ConstraintAdder(weekly_blackouts, date_blackouts, max_tasks_per_day, min_gap_minutes) ==
    [weekly_blackouts |-> weekly_blackouts, date_blackouts |-> date_blackouts,
     max_tasks_per_day |-> max_tasks_per_day, min_gap_minutes |-> min_gap_minutes]
NoConstraints == ConstraintAdder(<<>>, <<>>, <<>>, 0)
set_min_gap_minutes(c, gap) == [c EXCEPT !.min_gap_minutes = Max(0, gap)]

\* apply_blackouts, for one day: the blocks of the day, subtracted one by one
Blocks(c, d) ==
    LET W(b) == b[1] = weekday(d)
        D(b) == b[1] = d
        blocks == SelectSeq(c.weekly_blackouts, W) \o SelectSeq(c.date_blackouts, D)
    IN  [i \in 1..Len(blocks) |-> <<combine(d, blocks[i][2]), combine(d, blocks[i][3])>>]
RECURSIVE SubtractBlocks(_, _)
SubtractBlocks(intervals, blocks) ==
    IF blocks = <<>> THEN intervals
    ELSE SubtractBlocks(subtract_block(intervals, blocks[1][1], blocks[1][2]),
                        Tail(blocks))
apply_blackouts(c, day_windows) ==
    [d \in DOMAIN day_windows |-> SubtractBlocks(day_windows[d], Blocks(c, d))]

\* lines 170-195: the slots split at midnight, capped to the deadline,
\* intersected with the day's work window, grouped by day and sorted
Pieces(slots) ==
    Concat([i \in 1..Len(slots) |->
               IF slots[i][1] >= slots[i][2] THEN <<>>
               ELSE split_interval_by_midnight(slots[i][1], slots[i][2])])
\* the pieces that begin before the deadline, not cut at it
Capped_NotCut(pieces, deadline) ==
    LET Before(p) == p[1] < deadline IN SelectSeq(pieces, Before)
Capped(pieces, deadline) ==
    Concat([i \in 1..Len(pieces) |->
               IF pieces[i][1] >= deadline THEN <<>>
               ELSE <<<<pieces[i][1], Min(pieces[i][2], deadline)>>>>])
WorkdayWindows(capped) ==
    LET inter == Concat([i \in 1..Len(capped) |->
                    intersect(capped[i],
                              <<day_start(capped[i][1]) + work_start_hour * 60,
                                day_start(capped[i][1]) + work_end_hour * 60>>)])
        days == {date(inter[i][1]) : i \in 1..Len(inter)}
    IN  [d \in days |-> LET OnDay(iv) == date(iv[1]) = d
                        IN  SortIntervals(SelectSeq(inter, OnDay))]

\* lines 197-208: availability after the blackouts, and its minutes
Availability(raw_slots, deadline, constraints) ==
    apply_blackouts(constraints, WorkdayWindows(Capped(Pieces(raw_slots), deadline)))
RECURSIVE SortedDays(_)
SortedDays(S) ==
    IF S = {} THEN <<>>
    ELSE LET d == CHOOSE x \in S : \A y \in S : x <= y
         IN  <<d>> \o SortedDays(S \ {d})
TotalAvail(windows) ==
    Sum(Concat([i \in 1..Len(SortedDays(DOMAIN windows)) |->
                   LET ivs == windows[SortedDays(DOMAIN windows)[i]]
                   IN  [j \in 1..Len(ivs) |-> ivs[j][2] - ivs[j][1]]]))

Assignment(task_id, duration_min, day, start, end) ==
    [task_id |-> task_id, duration_min |-> duration_min, day |-> day,
     start |-> start, end |-> end]
SchedOk(assignments, per_day_count) ==
    [kind |-> "ok", assignments |-> assignments, per_day_count |-> per_day_count]
SchedError(error) == [kind |-> "RuntimeError", error |-> error]

\* line 253: no day can take the task; the assignments made so far are dropped
PlaceFailed_ReturnsPartial(assignments, per_day_count) ==
    SchedOk(assignments, per_day_count)
PlaceFailed(assignments, per_day_count) ==
    SchedError("Could not place task")

\* lines 217-253: the tasks from index idx on are placed in order
RECURSIVE Place(_, _, _, _, _, _, _)
Place(tasks_min, targets, eligible_days, constraints, windows, per_day_count, assignments) ==
    LET idx == Len(assignments)
    IN  IF idx = Len(tasks_min)
        THEN SchedOk(SortByKey(assignments,
                               [i \in 1..Len(assignments) |->
                                   <<assignments[i].start, assignments[i].task_id>>]),
                     per_day_count)
        ELSE
        LET dur == tasks_min[idx + 1]
            target_idx == targets[idx + 1]
            ranked_days ==
                SortByKey(eligible_days,
                          [i \in 1..Len(eligible_days) |->
                              <<Abs((i - 1) - target_idx),
                                per_day_count[eligible_days[i]]>>])
            Usable(day_key) ==
                /\ \/ constraints.max_tasks_per_day = <<>>
                   \/ per_day_count[day_key] < constraints.max_tasks_per_day[1]
                /\ find_earliest_block(windows[day_key], dur) # <<>>
            usable == SelectSeq(ranked_days, Usable)
        IN  IF usable = <<>>
            THEN PlaceFailed(assignments, per_day_count)
            ELSE
            LET day_key == usable[1]
                block == find_earliest_block(windows[day_key], dur)[1]
                s == block[1]
                e == block[2]
                taken == subtract_block(windows[day_key], s, e)
                cooled == IF constraints.min_gap_minutes > 0
                          THEN subtract_block(taken, e, e + constraints.min_gap_minutes)
                          ELSE taken
            IN  Place(tasks_min, targets, eligible_days, constraints,
                      [windows EXCEPT ![day_key] = cooled],
                      [per_day_count EXCEPT ![day_key] = @ + 1],
                      Append(assignments, Assignment(idx, dur, day_key, s, e)))

schedule_ordered_with_constraints(tasks_min, raw_slots, deadline, constraints) ==
    LET workday_windows == Availability(raw_slots, deadline, constraints)
        eligible_days == SortedDays(DOMAIN workday_windows)
    IN  IF eligible_days = <<>>
        THEN SchedError("No eligible working-day intervals")
        ELSE IF TotalAvail(workday_windows) < Sum(tasks_min)
        THEN SchedError("Infeasible")
        ELSE Place(tasks_min,
                   choose_even_spread_targets(Len(tasks_min), Len(eligible_days)),
                   eligible_days, constraints, workday_windows,
                   [d \in DOMAIN workday_windows |-> 0], <<>>)

-----------------------------------------------------------------------------
(* The scheduler's specification: the free intervals, the deadline and the   *)
(* constraints are drawn at the start, a step calls                          *)
(* schedule_ordered_with_constraints with a list of tasks                    *)

\* 05:00, 06:00, 06:30, 07:00, 23:00, 23:30 of day 0; 06:00, 07:00 of day 1
SchedGrid == {300, 360, 390, 420, 1380, 1410, 1800, 1860}
SchedIntervals == {<<a, b>> : a \in SchedGrid, b \in SchedGrid} 
SchedSlots == {iv \in SchedIntervals : iv[1] < iv[2]}
\* free intervals as a calendar gives them: in order, one ending before or
\* where the next begins
SchedLayouts ==
    {l \in UNION {[1..n -> SchedSlots] : n \in 0..MaxSlots} :
        \A i \in 1..(Len(l) - 1) : l[i][2] <= l[i + 1][1]}
\* 06:40 of day 0, midnight, 09:20 of day 1
SchedDeadlines == {400, 1440, 2000}
SchedConstraints ==
    {ConstraintAdder(w, d, cap, gap) :
        w \in {<<>>, <<<<0, 375, 380>>>>},        \* Mondays 06:15-06:20
        d \in {<<>>, <<<<1, 360, 400>>>>},        \* day 1, 06:00-06:40
        cap \in {<<>>, <<0>>, <<1>>},
        gap \in {0, 5}}
SchedTaskLists(total) == {<<total>>, <<total + 1>>, <<30>>, <<30, 30>>, <<60, 30>>}

SchedInput(tasks_min, raw_slots, deadline, constraints) ==
    [kind |-> "call", tasks_min |-> tasks_min, raw_slots |-> raw_slots,
     deadline |-> deadline, constraints |-> constraints]

InitSched ==
    /\ InitEC /\ RetryIdle /\ TAIdle /\ AgentsIdle
    /\ schedIn \in {SchedInput(<<>>, l, dl, c) :
                       l \in SchedLayouts, dl \in SchedDeadlines, c \in SchedConstraints}
    /\ schedOut = NoSched

Schedule(tasks_min) ==
    /\ schedOut = NoSched
    /\ schedIn' = [schedIn EXCEPT !.tasks_min = tasks_min]
    /\ schedOut' = schedule_ordered_with_constraints(tasks_min, schedIn.raw_slots,
                                                     schedIn.deadline,
                                                     schedIn.constraints)

NextSched ==
    \E tasks_min \in SchedTaskLists(TotalAvail(Availability(schedIn.raw_slots,
                                                            schedIn.deadline,
                                                            schedIn.constraints))) :
        Schedule(tasks_min) /\ UNCHANGED <<ecVars, retryVars, taVars, agentVars>>

SpecSched == InitSched /\ [][NextSched]_vars

\* the assignment of the task with index idx (0-based, as task_id)
SchedAssignmentOf(idx) ==
    schedOut.assignments[CHOOSE i \in 1..Len(schedOut.assignments) :
                            schedOut.assignments[i].task_id = idx]

\* C21, as the specification states it: in every returned list of
\* assignments the assignment of task i+1 starts at or after the end of the
\* assignment of task i.
C21_Precedence ==
    (schedOut # NoSched /\ schedOut.kind = "ok") =>
        \A idx \in 0..(Len(schedOut.assignments) - 2) :
            SchedAssignmentOf(idx + 1).start >= SchedAssignmentOf(idx).end

\* C21, what the code does keep: one assignment per task, with the task's
\* duration, and no two assignments overlap in time.
C21_DisjointAssignments ==
    (schedOut # NoSched /\ schedOut.kind = "ok") =>
        /\ Len(schedOut.assignments) = Len(schedIn.tasks_min)
        /\ \A idx \in 0..(Len(schedOut.assignments) - 1) :
              /\ \E i \in 1..Len(schedOut.assignments) :
                    schedOut.assignments[i].task_id = idx
              /\ SchedAssignmentOf(idx).end - SchedAssignmentOf(idx).start
                     = schedIn.tasks_min[idx + 1]
        /\ \A i, j \in 1..Len(schedOut.assignments) :
              i < j => schedOut.assignments[i].end <= schedOut.assignments[j].start

\* C23: what the contract asks of one assignment, apart from the free slots
C23_DayWorkDeadline(a) ==
    /\ a.start < a.end
    /\ date(a.start) = a.day
    /\ a.end <= next_midnight(a.start)
    /\ day_start(a.start) + work_start_hour * 60 <= a.start
    /\ a.end <= day_start(a.start) + work_end_hour * 60
    /\ \A k \in 1..Len(Blocks(schedIn.constraints, a.day)) :
          LET b == Blocks(schedIn.constraints, a.day)[k]
          IN  ~(a.start < b[2] /\ b[1] < a.end)
    /\ a.end <= schedIn.deadline
C23_InOneSlot(a) ==
    \E i \in 1..Len(schedIn.raw_slots) :
        schedIn.raw_slots[i][1] <= a.start /\ a.end <= schedIn.raw_slots[i][2]
C23_InFreeTime(a) ==
    \A t \in a.start..(a.end - 1) :
        \E i \in 1..Len(schedIn.raw_slots) :
            schedIn.raw_slots[i][1] <= t /\ t < schedIn.raw_slots[i][2]

\* C23, as the specification states it: every returned assignment lies on a
\* single calendar date, inside the work hours of that date, inside one of
\* the given free slots, outside every weekly and date blackout of that
\* date, and ends no later than the deadline.
C23_InsideOneFreeSlot ==
    (schedOut # NoSched /\ schedOut.kind = "ok") =>
        \A i \in 1..Len(schedOut.assignments) :
            /\ C23_DayWorkDeadline(schedOut.assignments[i])
            /\ C23_InOneSlot(schedOut.assignments[i])

\* C23, amended: every returned assignment lies on a single calendar date,
\* inside the work hours of that date, inside the free time the given slots
\* make up together (two slots that touch count as one stretch of free
\* time), outside every weekly and date blackout of that date, and ends no
\* later than the deadline.
C23_InsideFreeTime ==
    (schedOut # NoSched /\ schedOut.kind = "ok") =>
        \A i \in 1..Len(schedOut.assignments) :
            /\ C23_DayWorkDeadline(schedOut.assignments[i])
            /\ C23_InFreeTime(schedOut.assignments[i])

\* C23: two tasks have been placed under a blackout of their day, one of
\* them across the point where two free slots touch
C23_Witness ==
    /\ schedOut # NoSched
    /\ schedOut.kind = "ok"
    /\ Len(schedOut.assignments) = 2
    /\ \E i \in 1..2 :
          /\ ~C23_InOneSlot(schedOut.assignments[i])
          /\ Blocks(schedIn.constraints, schedOut.assignments[i].day) # <<>>

\* C26, as the specification states it: with min_gap_minutes = g > 0, of any
\* two assignments placed on the same day the later one starts no earlier
\* than g minutes after the earlier one ends.
C26_MinGapSameDay ==
    (schedOut # NoSched /\ schedOut.kind = "ok"
        /\ schedIn.constraints.min_gap_minutes > 0) =>
        \A i, j \in 1..Len(schedOut.assignments) :
            (/\ i # j
             /\ schedOut.assignments[i].day = schedOut.assignments[j].day
             /\ schedOut.assignments[i].start <= schedOut.assignments[j].start) =>
                schedOut.assignments[j].start
                    >= schedOut.assignments[i].end + schedIn.constraints.min_gap_minutes

\* C26, what the code does keep: a task placed after another task of the
\* same day in time, when it is also the later one in the task order, starts
\* at least g minutes after that task ends.
C26_MinGapAfterEarlierTask ==
    (schedOut # NoSched /\ schedOut.kind = "ok"
        /\ schedIn.constraints.min_gap_minutes > 0) =>
        \A i, j \in 1..Len(schedOut.assignments) :
            (/\ schedOut.assignments[i].task_id < schedOut.assignments[j].task_id
             /\ schedOut.assignments[i].day = schedOut.assignments[j].day
             /\ schedOut.assignments[i].start <= schedOut.assignments[j].start) =>
                schedOut.assignments[j].start
                    >= schedOut.assignments[i].end + schedIn.constraints.min_gap_minutes

\* C10: the free intervals left after deadline, work-hour and blackout
\* clipping, and their minutes
C10_Free ==
    LET w == Availability(schedIn.raw_slots, schedIn.deadline, schedIn.constraints)
    IN  Concat([i \in 1..Len(SortedDays(DOMAIN w)) |-> w[SortedDays(DOMAIN w)[i]]])
C10_Total == Sum([i \in 1..Len(C10_Free) |-> C10_Free[i][2] - C10_Free[i][1]])

-----------------------------------------------------------------------------
(* time_allotment_agent.py.  A datetime is its wall-clock reading (minutes   *)
(* since the midnight that begins day 0) with, when it is aware, its UTC     *)
(* offset in minutes; an ISO string is the datetime it spells, so            *)
(* fromisoformat and isoformat keep the reading and the offset.              *)

Aware(t, off) == [t |-> t, off |-> off, aware |-> TRUE]
Naive(t) == [t |-> t, off |-> 0, aware |-> FALSE]
\* dt.replace(tzinfo=None), dt.replace(tzinfo=tz)
StripTz(dt) == Naive(dt.t)
WithTz(dt, off) == Aware(dt.t, off)
\* if dt.tzinfo is None: dt = dt.replace(tzinfo=datetime.now().astimezone().tzinfo)
Localize(dt, local) == IF dt.aware THEN dt ELSE Aware(dt.t, local)
\* aware datetimes compare and subtract by the instant they denote
Instant(dt) == dt.t - dt.off
\* Python's min(a, b) and max(a, b) return a unless b is strictly beyond it
MinDt(a, b) == IF Instant(b) < Instant(a) THEN b ELSE a
MaxDt(a, b) == IF Instant(b) > Instant(a) THEN b ELSE a
\* the order of ISO strings as strings: the reading first, then the suffix
\* (none, then "+hh:mm" ascending, then "-hh:mm" by ascending magnitude)
IsoKey(dt) ==
    <<dt.t, IF ~dt.aware THEN -1 ELSE IF dt.off >= 0 THEN dt.off ELSE 10000 - dt.off>>

Event(title, start, end, calendar) ==
    [title |-> title, start_iso |-> start, end_iso |-> end, calendar |-> calendar]

\* _is_holiday: the calendar names of the model that contain "holiday" when
\* lowercased
HolidayCalendars == {"US Holidays"}
is_holiday(event) == event.calendar \in HolidayCalendars

TARaise(kind, error) == [kind |-> kind, error |-> error]

\* _fetch_events_for_window, given the bridge's answer to GET /events
fetch_events_for_window(response, start_iso, end_iso, local) ==
    LET start_dt == Localize(start_iso, local)
        end_dt == Localize(end_iso, local)
        Keep(event) ==
            /\ ~is_holiday(event)
            /\ Instant(event.start_iso) < Instant(end_dt)
            /\ Instant(event.end_iso) > Instant(start_dt)
    IN  SelectSeq(response.events, Keep)

\* the loop of _calculate_free_slots and the slot after the last event
RECURSIVE FreeWalk(_, _, _)
FreeWalk(sorted_events, current_time, end_dt) ==
    IF sorted_events = <<>>
    THEN IF Instant(current_time) < Instant(end_dt)
         THEN <<<<current_time, end_dt>>>> ELSE <<>>
    ELSE LET event_start == sorted_events[1].start_iso
             event_end == sorted_events[1].end_iso
         IN  IF Instant(event_end) <= Instant(current_time)
             THEN FreeWalk(Tail(sorted_events), current_time, end_dt)
             ELSE (IF /\ Instant(current_time) < Instant(event_start)
                      /\ Instant(current_time) < Instant(MinDt(event_start, end_dt))
                   THEN <<<<current_time, MinDt(event_start, end_dt)>>>>
                   ELSE <<>>)
                      \o FreeWalk(Tail(sorted_events), MaxDt(current_time, event_end),
                                  end_dt)

calculate_free_slots(events, start_iso, end_iso, local) ==
    FreeWalk(SortByKey(events, [i \in 1..Len(events) |-> IsoKey(events[i].start_iso)]),
             Localize(start_iso, local), Localize(end_iso, local))

\* a duration "PT[nH][nM]": each component is there or not
Duration(H, M) == [H |-> H, M |-> M]
DEFAULT_SIMPLE_DURATION == Duration(<<>>, <<30>>)
iso8601_to_minutes(duration) ==
    (IF duration.H = <<>> THEN 0 ELSE duration.H[1]) * 60
        + (IF duration.M = <<>> THEN 0 ELSE duration.M[1])

\* _validate_scheduled_slot: "ok" or the error
validate_scheduled_slot(slot_start, slot_end, required_duration_min, window_start, window_end, busy_events, local) ==
    LET slot_start_dt == Localize(slot_start, local)
        slot_end_dt == Localize(slot_end, local)
        window_start_dt == Localize(window_start, local)
        window_end_dt == Localize(window_end, local)
    IN  IF Instant(slot_start_dt) < Instant(window_start_dt)
        THEN "Slot starts before window"
        ELSE IF Instant(slot_end_dt) > Instant(window_end_dt)
        THEN "Slot ends after window"
        ELSE IF Instant(slot_start_dt) >= Instant(slot_end_dt)
        THEN "Invalid slot: start >= end"
        ELSE IF Instant(slot_end_dt) - Instant(slot_start_dt) # required_duration_min
        THEN "Duration mismatch"
        ELSE IF \E i \in 1..Len(busy_events) :
                   /\ Instant(slot_start_dt)
                          < Instant(Localize(busy_events[i].end_iso, local))
                   /\ Instant(slot_end_dt)
                          > Instant(Localize(busy_events[i].start_iso, local))
        THEN "Overlaps with busy event"
        ELSE "ok"

\* lines 372-386 / 480-491: the free slots and the deadline made naive
RawSlots(free_slots) ==
    [i \in 1..Len(free_slots) |-> <<StripTz(free_slots[i][1]).t, StripTz(free_slots[i][2]).t>>]

\* python truthiness of an optional string
Missing(opt) == opt = <<>> \/ opt = <<"">>

\* schedule_simple_task
schedule_simple_task(td_output, ts_output, response, local) ==
    IF td_output.type # "simple" THEN TARaise("ValueError", "Expected simple task")
    ELSE IF Missing(td_output.calendar) THEN TARaise("ValueError", "Calendar ID is required")
    ELSE IF Missing(td_output.title) THEN TARaise("ValueError", "Task title is required")
    ELSE IF ts_output.start = <<>> \/ ts_output.end = <<>>
    THEN TARaise("ValueError", "TS output must have start and end")
    ELSE IF response.kind # "ok" THEN TARaise("RuntimeError", "Failed to fetch events")
    ELSE
    LET window_start == ts_output.start[1]
        window_end == ts_output.end[1]
        duration_iso == IF ts_output.duration # <<>> THEN ts_output.duration[1]
                        ELSE IF td_output.duration # <<>> THEN td_output.duration[1]
                        ELSE DEFAULT_SIMPLE_DURATION
        duration_min == iso8601_to_minutes(duration_iso)
        events == fetch_events_for_window(response, window_start, window_end, local)
        free_slots == calculate_free_slots(events, window_start, window_end, local)
    IN  IF free_slots = <<>> THEN TARaise("RuntimeError", "No free time slots")
        ELSE
        LET sched == schedule_ordered_with_constraints(
                         <<duration_min>>, RawSlots(free_slots), StripTz(window_end).t,
                         NoConstraints)
        IN  IF sched.kind # "ok" THEN TARaise("RuntimeError", sched.error)
            ELSE IF Len(sched.assignments) # 1
            THEN TARaise("RuntimeError", "Scheduler did not return exactly one assignment")
            ELSE
            LET tz == Localize(window_start, local).off
                slot_start == WithTz(Naive(sched.assignments[1].start), tz)
                slot_end == WithTz(Naive(sched.assignments[1].end), tz)
                error_msg == validate_scheduled_slot(slot_start, slot_end, duration_min,
                                                     window_start, window_end, events,
                                                     local)
            IN  IF error_msg # "ok" THEN TARaise("RuntimeError", error_msg)
                ELSE [kind |-> "ScheduledSimpleTask", calendar |-> td_output.calendar[1],
                      type |-> "simple", title |-> td_output.title[1],
                      slot |-> <<slot_start, slot_end>>, id |-> "uuid",
                      parent_id |-> NULL]

\* lines 512-528: the first assignment, in task order, that fails validation
SlotErrors(assignments, durations, window_start, window_end, events, local) ==
    [i \in 1..Len(assignments) |->
        validate_scheduled_slot(Naive(assignments[i].start), Naive(assignments[i].end),
                                durations[i], window_start, window_end, events, local)]
\* lines 530-540: precedence, each start at or after the end before it
ValidateOrder_Skipped(assignments, local) == TRUE
ValidateOrder(assignments, local) ==
    \A i \in 2..Len(assignments) :
        ~(Instant(Localize(Naive(assignments[i].start), local))
              < Instant(Localize(Naive(assignments[i - 1].end), local)))
\* lines 542-559: no two assignments overlap
ValidateNonOverlap(assignments, local) ==
    \A i \in 1..Len(assignments) : \A j \in (i + 1)..Len(assignments) :
        ~(/\ Instant(Localize(Naive(assignments[i].start), local))
                 < Instant(Localize(Naive(assignments[j].end), local))
          /\ Instant(Localize(Naive(assignments[i].end), local))
                 > Instant(Localize(Naive(assignments[j].start), local)))

\* schedule_complex_task
schedule_complex_task(ld_output, ts_output, response, local) ==
    IF ld_output.type # "complex" THEN TARaise("ValueError", "Expected complex task")
    ELSE IF Len(ld_output.subtasks) < 2
    THEN TARaise("ValueError", "Complex task must have at least 2 subtasks")
    ELSE IF Missing(ld_output.calendar) THEN TARaise("ValueError", "Calendar ID is required")
    ELSE IF Missing(ld_output.title) THEN TARaise("ValueError", "Task title is required")
    ELSE IF ts_output.start = <<>> \/ ts_output.end = <<>>
    THEN TARaise("ValueError", "TS output must have start and end")
    ELSE IF \E i \in 1..Len(ld_output.subtasks) : ld_output.subtasks[i].duration = <<>>
    THEN TARaise("ValueError", "Subtask missing duration")
    ELSE IF response.kind # "ok" THEN TARaise("RuntimeError", "Failed to fetch events")
    ELSE
    LET subtasks == ld_output.subtasks
        window_start == ts_output.start[1]
        window_end == ts_output.end[1]
        subtask_durations_min ==
            [i \in 1..Len(subtasks) |-> iso8601_to_minutes(subtasks[i].duration[1])]
        events == fetch_events_for_window(response, window_start, window_end, local)
        free_slots == calculate_free_slots(events, window_start, window_end, local)
    IN  IF free_slots = <<>> THEN TARaise("RuntimeError", "No free time slots")
        ELSE
        LET sched == schedule_ordered_with_constraints(
                         subtask_durations_min, RawSlots(free_slots),
                         StripTz(window_end).t, set_min_gap_minutes(NoConstraints, 5))
        IN  IF sched.kind # "ok" THEN TARaise("RuntimeError", sched.error)
            ELSE IF Len(sched.assignments) # Len(subtasks)
            THEN TARaise("RuntimeError", "Scheduler returned the wrong number")
            ELSE
            LET assignments ==
                    SortByKey(sched.assignments,
                              [i \in 1..Len(sched.assignments) |->
                                  <<sched.assignments[i].task_id>>])
                errors == SlotErrors(assignments, subtask_durations_min, window_start,
                                     window_end, events, local)
                bad == {i \in 1..Len(errors) : errors[i] # "ok"}
                tz == Localize(window_start, local).off
            IN  IF bad # {}
                THEN TARaise("RuntimeError", errors[CHOOSE i \in bad : \A j \in bad : i <= j])
                ELSE IF ~ValidateOrder(assignments, local)
                THEN TARaise("RuntimeError", "Precedence violation")
                ELSE IF ~ValidateNonOverlap(assignments, local)
                THEN TARaise("RuntimeError", "Overlap detected")
                ELSE [kind |-> "ScheduledComplexTask", calendar |-> ld_output.calendar[1],
                      type |-> "complex", title |-> ld_output.title[1], id |-> "uuid",
                      parent_id |-> NULL,
                      subtasks |->
                          [i \in 1..Len(assignments) |->
                              [title |-> subtasks[i].title,
                               slot |-> <<WithTz(Naive(assignments[i].start), tz),
                                          WithTz(Naive(assignments[i].end), tz)>>,
                               parent_id |-> "uuid", id |-> "uuid"]]]

-----------------------------------------------------------------------------
(* Time Allotment's specification: the call, its inputs, the bridge's answer *)
(* and the machine's UTC offset are drawn at the start; a step runs the call *)

\* New York and Los Angeles standard time
Offsets == {-300, -480}
\* 11:00-22:00 and 08:00-12:00 of day 0, 22:00 of day 0 to 08:00 of day 1
TAWindowTimes == {<<660, 1320>>, <<480, 720>>, <<1320, 1920>>}
TAZones == {<<off>> : off \in Offsets} \cup {<<>>}
MkDt(t, zone) == IF zone = <<>> THEN Naive(t) ELSE Aware(t, zone[1])
TSOutput(start, end, duration) == [start |-> start, end |-> end, duration |-> duration]
TSOutputs(durations) ==
    {TSOutput(<<MkDt(w[1], z)>>, <<MkDt(w[2], z)>>, d) :
        w \in TAWindowTimes, z \in TAZones, d \in durations}
        \cup {TSOutput(<<>>, <<>>, <<>>)}

\* the events of the calendar, as the bridge spells them
EventPool ==
    { Event("standup", Aware(480, -480), Aware(600, -480), "Work"),
      Event("lunch", Aware(720, -480), Aware(840, -480), "Work"),
      Event("review", Aware(690, -300), Aware(720, -300), "Work"),
      Event("call", Aware(780, -300), Aware(840, -300), "Home"),
      Event("late", Aware(1350, -300), Aware(1380, -300), "Work"),
      Event("Thanksgiving", Aware(660, -300), Aware(1320, -300), "US Holidays") }
\* GET /events answers with the events sorted by their start, or fails
BridgeResponses ==
    {[kind |-> "error", events |-> <<>>]} \cup
    {[kind |-> "ok", events |-> es] :
        es \in {l \in UNION {[1..n -> EventPool] : n \in 0..MaxEvents} :
                   /\ NoDup(l)
                   /\ \A i \in 1..(Len(l) - 1) :
                         Instant(l[i].start_iso) <= Instant(l[i + 1].start_iso)}}

D30 == Duration(<<>>, <<30>>)
D60 == Duration(<<1>>, <<>>)
D90 == Duration(<<1>>, <<30>>)
D120 == Duration(<<2>>, <<>>)

TDOutput(type, calendar, title, duration) ==
    [type |-> type, calendar |-> calendar, title |-> title, duration |-> duration]
TDOutputs ==
    {TDOutput("simple", <<"Work">>, <<"Call mom">>, d) : d \in {<<>>, <<D90>>}}
        \cup { TDOutput("complex", <<"Work">>, <<"Call mom">>, <<>>),
               TDOutput("simple", <<>>, <<"Call mom">>, <<>>),
               TDOutput("simple", <<"Work">>, <<"">>, <<>>) }

LDSubtask(title, duration) == [title |-> title, duration |-> duration]
LDOutput(type, calendar, title, subtasks) ==
    [type |-> type, calendar |-> calendar, title |-> title, subtasks |-> subtasks]
LDOutputs ==
    {LDOutput("complex", <<"Work">>, <<"Plan trip">>,
              [i \in 1..Len(ds) |-> LDSubtask("Step", <<ds[i]>>)]) :
        ds \in UNION {[1..n -> {D30, D60, D120}] : n \in 2..MaxSubtasks}}
        \cup { LDOutput("simple", <<"Work">>, <<"Plan trip">>,
                        <<LDSubtask("Step", <<D30>>), LDSubtask("Step", <<D30>>)>>),
               LDOutput("complex", <<"Work">>, <<"Plan trip">>,
                        <<LDSubtask("Step", <<D30>>)>>),
               LDOutput("complex", <<>>, <<"Plan trip">>,
                        <<LDSubtask("Step", <<D30>>), LDSubtask("Step", <<D30>>)>>),
               LDOutput("complex", <<"Work">>, <<>>,
                        <<LDSubtask("Step", <<D30>>), LDSubtask("Step", <<D30>>)>>),
               LDOutput("complex", <<"Work">>, <<"Plan trip">>,
                        <<LDSubtask("Step", <<D30>>), LDSubtask("Step", <<>>)>>) }

TAInput(call, task, ts, response, local) ==
    [kind |-> "call", call |-> call, task |-> task, ts |-> ts, response |-> response,
     local |-> local]
TAInputs ==
    {TAInput("schedule_simple_task", td, ts, r, local) :
        td \in TDOutputs, ts \in TSOutputs({<<>>, <<D60>>}), r \in BridgeResponses,
        local \in Offsets}
    \cup
    {TAInput("schedule_complex_task", ld, ts, r, local) :
        ld \in LDOutputs, ts \in TSOutputs({<<>>}), r \in BridgeResponses,
        local \in Offsets}

InitTA ==
    /\ InitEC /\ RetryIdle /\ SchedIdle /\ AgentsIdle
    /\ taIn \in TAInputs
    /\ taOut = NoSched

ScheduleSimpleTask ==
    /\ taOut = NoSched
    /\ taIn.call = "schedule_simple_task"
    /\ taOut' = schedule_simple_task(taIn.task, taIn.ts, taIn.response, taIn.local)
    /\ UNCHANGED taIn

ScheduleComplexTask ==
    /\ taOut = NoSched
    /\ taIn.call = "schedule_complex_task"
    /\ taOut' = schedule_complex_task(taIn.task, taIn.ts, taIn.response, taIn.local)
    /\ UNCHANGED taIn

NextTA ==
    \/ ScheduleSimpleTask /\ UNCHANGED <<ecVars, retryVars, schedVars, agentVars>>
    \/ ScheduleComplexTask /\ UNCHANGED <<ecVars, retryVars, schedVars, agentVars>>

SpecTA == InitTA /\ [][NextTA]_vars

\* the slots the call returned, and the non-holiday events it fetched for the
\* window
TA_Returned == taOut.kind \in {"ScheduledSimpleTask", "ScheduledComplexTask"}
TA_Slots ==
    IF taOut.kind = "ScheduledSimpleTask" THEN <<taOut.slot>>
    ELSE IF taOut.kind = "ScheduledComplexTask"
    THEN [i \in 1..Len(taOut.subtasks) |-> taOut.subtasks[i].slot]
    ELSE <<>>
TA_Fetched ==
    IF TA_Returned
    THEN fetch_events_for_window(taIn.response, taIn.ts.start[1], taIn.ts.end[1],
                                 taIn.local)
    ELSE <<>>
\* the minutes of the duration the task of slot i is required to have
TA_Minutes(d) ==
    (IF d.H = <<>> THEN 0 ELSE 60 * d.H[1]) + (IF d.M = <<>> THEN 0 ELSE d.M[1])
TA_Required(i) ==
    IF taOut.kind = "ScheduledComplexTask"
    THEN TA_Minutes(taIn.task.subtasks[i].duration[1])
    ELSE IF taIn.ts.duration # <<>> THEN TA_Minutes(taIn.ts.duration[1])
    ELSE IF taIn.task.duration # <<>> THEN TA_Minutes(taIn.task.duration[1])
    ELSE 30

\* C11: the call schedule_simple_task / schedule_complex_task made to the
\* scheduler, when it got that far, and what the scheduler answered
C11_Reached ==
    /\ taOut # NoSched
    /\ taOut.kind # "ValueError"
    /\ taIn.response.kind = "ok"
    /\ calculate_free_slots(
           fetch_events_for_window(taIn.response, taIn.ts.start[1], taIn.ts.end[1],
                                   taIn.local),
           taIn.ts.start[1], taIn.ts.end[1], taIn.local) # <<>>
C11_TasksMin ==
    IF taIn.call = "schedule_complex_task"
    THEN [i \in 1..Len(taIn.task.subtasks) |->
             iso8601_to_minutes(taIn.task.subtasks[i].duration[1])]
    ELSE <<TA_Required(1)>>
C11_Inner ==
    LET events == fetch_events_for_window(taIn.response, taIn.ts.start[1],
                                          taIn.ts.end[1], taIn.local)
        free_slots == calculate_free_slots(events, taIn.ts.start[1], taIn.ts.end[1],
                                           taIn.local)
    IN  schedule_ordered_with_constraints(
            C11_TasksMin, RawSlots(free_slots), StripTz(taIn.ts.end[1]).t,
            IF taIn.call = "schedule_complex_task"
            THEN set_min_gap_minutes(NoConstraints, 5) ELSE NoConstraints)
\* an answer of the scheduler for tasks_min: one assignment for each task, or
\* an error that carries no assignment
C11_SchedAllOrNothing(out, tasks_min) ==
    \/ /\ out.kind = "ok"
       /\ Len(out.assignments) = Len(tasks_min)
       /\ \A k \in 1..Len(tasks_min) :
              Cardinality({i \in 1..Len(out.assignments) :
                              /\ out.assignments[i].task_id = k - 1
                              /\ out.assignments[i].duration_min = tasks_min[k]}) = 1
    \/ /\ out.kind = "RuntimeError"
       /\ DOMAIN out = {"kind", "error"}

\* C11: scheduling is all-or-nothing.  schedule_ordered_with_constraints, called
\* directly or by the Time Allotment Agent, either returns exactly one
\* assignment for every task of tasks_min or raises and returns no assignment;
\* the Time Allotment Agent either returns a slot for the task (one for every
\* subtask) or raises and returns no scheduled output.
C11_AllOrNothing ==
    /\ schedOut # NoSched => C11_SchedAllOrNothing(schedOut, schedIn.tasks_min)
    /\ C11_Reached => C11_SchedAllOrNothing(C11_Inner, C11_TasksMin)
    /\ taOut # NoSched =>
          \/ /\ taOut.kind = "ScheduledSimpleTask"
             /\ Len(taOut.slot) = 2
          \/ /\ taOut.kind = "ScheduledComplexTask"
             /\ Len(taOut.subtasks) = Len(taIn.task.subtasks)
             /\ \A i \in 1..Len(taOut.subtasks) : Len(taOut.subtasks[i].slot) = 2
          \/ /\ taOut.kind \in {"ValueError", "RuntimeError"}
             /\ DOMAIN taOut = {"kind", "error"}

\* C11: the scheduler placed the first subtask, could not place a later one,
\* and schedule_complex_task raised
C11_Witness ==
    /\ C11_Reached
    /\ taIn.call = "schedule_complex_task"
    /\ C11_Inner = SchedError("Could not place task")
    /\ taOut.kind = "RuntimeError"
    /\ LET events == fetch_events_for_window(taIn.response, taIn.ts.start[1],
                                             taIn.ts.end[1], taIn.local)
           free_slots == calculate_free_slots(events, taIn.ts.start[1],
                                              taIn.ts.end[1], taIn.local)
       IN  schedule_ordered_with_constraints(
               <<C11_TasksMin[1]>>, RawSlots(free_slots), StripTz(taIn.ts.end[1]).t,
               set_min_gap_minutes(NoConstraints, 5)).kind = "ok"

\* C7: in every ScheduledComplexTask that schedule_complex_task returns, the
\* slot of subtask i+1 starts at or after the end of the slot of subtask i.
C7_SlotsInOrder ==
    taOut.kind = "ScheduledComplexTask" =>
        \A i \in 1..(Len(taOut.subtasks) - 1) :
            Instant(taOut.subtasks[i + 1].slot[1]) >= Instant(taOut.subtasks[i].slot[2])

\* C7: a complex task of the largest size has been scheduled around a busy
\* event that lies inside the window
C7_Witness ==
    /\ taOut.kind = "ScheduledComplexTask"
    /\ Len(taOut.subtasks) = MaxSubtasks
    /\ TA_Fetched # <<>>
    /\ taIn.task.subtasks[1].duration # taIn.task.subtasks[2].duration

\* C22: the window and the busy events that the call hands to
\* _calculate_free_slots, and the free slots it gets back
C22_Called ==
    /\ taOut # NoSched
    /\ taIn.ts.start # <<>>
    /\ taIn.response.kind = "ok"
C22_Ws == Instant(Localize(taIn.ts.start[1], taIn.local))
C22_We == Instant(Localize(taIn.ts.end[1], taIn.local))
C22_Busy ==
    fetch_events_for_window(taIn.response, taIn.ts.start[1], taIn.ts.end[1], taIn.local)
C22_Free ==
    calculate_free_slots(C22_Busy, taIn.ts.start[1], taIn.ts.end[1], taIn.local)
\* the minute that begins at instant t lies in a busy event / in a free slot
C22_InBusy(t) ==
    \E j \in 1..Len(C22_Busy) :
        Instant(C22_Busy[j].start_iso) <= t /\ t < Instant(C22_Busy[j].end_iso)
C22_InFree(t) ==
    \E i \in 1..Len(C22_Free) :
        Instant(C22_Free[i][1]) <= t /\ t < Instant(C22_Free[i][2])
C22_WellFormed ==
    /\ \A i \in 1..Len(C22_Free) :
          /\ Instant(C22_Free[i][1]) < Instant(C22_Free[i][2])
          /\ C22_Ws <= Instant(C22_Free[i][1])
          /\ Instant(C22_Free[i][2]) <= C22_We
    /\ \A i \in 1..(Len(C22_Free) - 1) :
          Instant(C22_Free[i][2]) <= Instant(C22_Free[i + 1][1])
C22_Covers == \A t \in C22_Ws..(C22_We - 1) : ~C22_InBusy(t) => C22_InFree(t)
C22_AvoidsBusy == \A t \in C22_Ws..(C22_We - 1) : C22_InFree(t) => ~C22_InBusy(t)
C22_SameOffsets ==
    \A i, j \in 1..Len(C22_Busy) : C22_Busy[i].start_iso.off = C22_Busy[j].start_iso.off

\* C22, as the specification states it: the free slots have positive length,
\* lie inside the window, are disjoint and in increasing order, overlap no
\* busy event and cover every instant of the window that no busy event
\* covers; the list is empty exactly when the busy events cover the window.
C22_FreeIsComplement ==
    C22_Called =>
        /\ C22_WellFormed
        /\ C22_AvoidsBusy
        /\ C22_Covers
        /\ (C22_Free = <<>>) = (\A t \in C22_Ws..(C22_We - 1) : C22_InBusy(t))

\* C22, what the code does keep: the free slots are well formed and cover
\* every free instant for all inputs; they are the exact complement of the
\* busy events when the events' start strings carry one UTC offset.
C22_FreeIsComplementSameOffsets ==
    C22_Called =>
        /\ C22_WellFormed
        /\ C22_Covers
        /\ C22_SameOffsets =>
              /\ C22_AvoidsBusy
              /\ (C22_Free = <<>>) = (\A t \in C22_Ws..(C22_We - 1) : C22_InBusy(t))

\* C8, as the specification states it: no slot returned by
\* schedule_simple_task or schedule_complex_task overlaps a non-holiday busy
\* event that the same call fetched for the window.
C8_NoSlotOverlapsBusy ==
    \A i \in 1..Len(TA_Slots) : \A j \in 1..Len(TA_Fetched) :
        ~(/\ Instant(TA_Slots[i][1]) < Instant(TA_Fetched[j].end_iso)
          /\ Instant(TA_Slots[i][2]) > Instant(TA_Fetched[j].start_iso))

\* C9, as the specification states it: every slot returned satisfies
\* W_s <= start < end <= W_e for the TS window [W_s, W_e], and its length in
\* minutes is the required duration of its task (for a simple task the TS
\* duration, else the TD duration, else 30 minutes).
C9_SlotInWindowWithDuration ==
    \A i \in 1..Len(TA_Slots) :
        LET W_s == Localize(taIn.ts.start[1], taIn.local)
            W_e == Localize(taIn.ts.end[1], taIn.local)
        IN  /\ Instant(W_s) <= Instant(TA_Slots[i][1])
            /\ Instant(TA_Slots[i][1]) < Instant(TA_Slots[i][2])
            /\ Instant(TA_Slots[i][2]) <= Instant(W_e)
            /\ Instant(TA_Slots[i][2]) - Instant(TA_Slots[i][1]) = TA_Required(i)

-----------------------------------------------------------------------------
(* The Time Standardizer (time_standardizer.py).                             *)
(* A datetime is a day number, the second of the day, the microsecond and,   *)
(* when it is aware, its UTC offset in minutes (tz is <<>> when naive).      *)
(* A text is what the Absolute Resolver wrote: the canonical form            *)
(* "Month DD, YYYY HH:MM am/pm", the extended form with a weekday in front,   *)
(* the ISO form with seconds and an offset, or something else.               *)

DateTime(day, sec, us, tz) == [day |-> day, sec |-> sec, us |-> us, tz |-> tz]
HMS(hour, minute, second) == hour * 3600 + minute * 60 + second
\* the instant of an aware datetime, in half seconds
TsInstant(dt) == ((dt.day * 86400 + dt.sec) - dt.tz[1] * 60) * 2 + (dt.us \div 500000)

NoText == [fmt |-> "none"]
EmptyText == [fmt |-> "empty"]
OtherText == [fmt |-> "other"]
CanonicalText(day, hour, minute, ampm) ==
    [fmt |-> "canonical", day |-> day, hour |-> hour, minute |-> minute, ampm |-> ampm]
ExtendedText(day, hour, minute, ampm) ==
    [fmt |-> "extended", day |-> day, hour |-> hour, minute |-> minute, ampm |-> ampm]
IsoText(day, hour, minute, second, off) ==
    [fmt |-> "iso", day |-> day, hour |-> hour, minute |-> minute, second |-> second,
     off |-> off]
\* an ISO string with a fraction of a second, which iso_regex does not match
IsoFractionText(day, hour, minute, second, us, off) ==
    [fmt |-> "isofraction", day |-> day, hour |-> hour, minute |-> minute,
     second |-> second, us |-> us, off |-> off]

\* _parse_canonical_format / _parse_extended_format: <<>> is None
ParseClock(text) ==
    LET lower == IF text.ampm \in {"pm", "PM"} THEN "pm" ELSE "am"
        hour == IF lower = "pm" /\ text.hour # 12 THEN text.hour + 12
                ELSE IF lower = "am" /\ text.hour = 12 THEN 0
                ELSE text.hour
    IN  IF hour > 23 \/ text.minute > 59 THEN <<>>
        ELSE <<DateTime(text.day, HMS(hour, text.minute, 0), 0, <<>>)>>
parse_canonical_format(text) ==
    IF text.fmt = "canonical" THEN ParseClock(text) ELSE <<>>
parse_extended_format(text) ==
    IF text.fmt = "extended" THEN ParseClock(text) ELSE <<>>
\* _parse_iso_format: the offset of the text is dropped
parse_iso_format(text) ==
    IF text.fmt # "iso" THEN <<>>
    ELSE IF text.hour > 23 \/ text.minute > 59 \/ text.second > 59 THEN <<>>
    ELSE <<DateTime(text.day, HMS(text.hour, text.minute, text.second), 0, <<>>)>>
\* lines 287-307: canonical, then extended, then ISO
ParseText(text) ==
    IF parse_canonical_format(text) # <<>> THEN parse_canonical_format(text)
    ELSE IF parse_extended_format(text) # <<>> THEN parse_extended_format(text)
    ELSE parse_iso_format(text)

\* pytz: daylight time of America/New_York ends on day DstEndDay at 02:00
\* (wall time from 01:00 standard on is read as standard time); Asia/Kolkata
\* has one offset
DstEndDay == 2
Timezones == {"America/New_York", "Asia/Kolkata"}
UtcOffset(timezone, day, sec) ==
    IF timezone = "Asia/Kolkata" THEN 330
    ELSE IF day < DstEndDay \/ (day = DstEndDay /\ sec < 3600) THEN -240
    ELSE -300
\* _apply_timezone on a naive datetime: tz.localize(dt)
apply_timezone(dt, timezone) ==
    DateTime(dt.day, dt.sec, dt.us, <<UtcOffset(timezone, dt.day, dt.sec)>>)

\* _determine_seconds
determine_seconds(dt, is_eod) ==
    IF is_eod /\ dt.sec \div 60 = 23 * 60 + 59
    THEN DateTime(dt.day, (dt.sec \div 60) * 60 + 59, 0, dt.tz)
    ELSE DateTime(dt.day, (dt.sec \div 60) * 60, 0, dt.tz)

\* dt + timedelta(days=1): the wall clock moves, the tzinfo object stays
PlusOneDay(dt) == DateTime(dt.day + 1, dt.sec, dt.us, dt.tz)

\* _adjust_past_times: <<start, end>>
adjust_past_times(start_dt, end_dt, now) ==
    LET start_is_past == TsInstant(start_dt) < TsInstant(now)
        end_is_past == TsInstant(end_dt) < TsInstant(now)
    IN  IF ~start_is_past /\ ~end_is_past THEN <<start_dt, end_dt>>
        ELSE IF start_is_past /\ end_is_past
        THEN <<PlusOneDay(start_dt), PlusOneDay(end_dt)>>
        ELSE IF start_is_past /\ ~end_is_past THEN <<now, end_dt>>
        ELSE <<start_dt, DateTime(start_dt.day, end_dt.sec, end_dt.us, start_dt.tz)>>

\* _enforce_invariant: <<start, end>>
EndOfDay(dt) == DateTime(dt.day, HMS(23, 59, 59), 0, dt.tz)
enforce_invariant(start_dt, end_dt) ==
    IF TsInstant(start_dt) <= TsInstant(end_dt) THEN <<start_dt, end_dt>>
    ELSE <<start_dt, EndOfDay(start_dt)>>

\* dt.isoformat() of an aware datetime
isoformat(dt) ==
    LET hour == dt.sec \div 3600
        minute == (dt.sec % 3600) \div 60
        second == dt.sec % 60
    IN  IF dt.us = 0 THEN IsoText(dt.day, hour, minute, second, dt.tz[1])
        ELSE IsoFractionText(dt.day, hour, minute, second, dt.us, dt.tz[1])
\* the instant an ISO string names, in half seconds
IsoInstant(text) ==
    TsInstant(DateTime(text.day, HMS(text.hour, text.minute, text.second),
                       IF text.fmt = "isofraction" THEN text.us ELSE 0, <<text.off>>))

\* duration strings: <<>> is None
NoDuration == [form |-> "none"]
DurationText(form, h, m) == [form |-> form, h |-> h, m |-> m]
\* the string an ISO-8601 duration is written as
IsoDurationText(duration) == [form |-> "iso", duration |-> duration]
\* _normalize_duration: the ISO-8601 duration, or <<>> for None
normalize_duration(duration) ==
    IF duration.form \in {"none", "empty"} THEN <<>>
    ELSE IF duration.form = "minutes" THEN <<Duration(<<>>, <<duration.m>>)>>   \* "45 min"
    ELSE IF duration.form = "hours" THEN <<Duration(<<duration.h>>, <<>>)>>    \* "2h"
    ELSE IF duration.form = "compound"                                        \* "2h30m"
    THEN <<Duration(<<duration.h>>, <<duration.m>>)>>
    ELSE IF duration.form = "decimal"            \* "1.5h": h hours and m hundredths
    THEN <<Duration(<<duration.h>>, <<(duration.m * 60) \div 100>>)>>
    ELSE IF duration.form = "half an hour" THEN <<Duration(<<>>, <<30>>)>>
    ELSE IF duration.form = "an hour" THEN <<Duration(<<1>>, <<>>)>>
    ELSE <<>>                                    \* "PT30M", "a while", ...

AROutput(start_text, end_text, duration) ==
    [start_text |-> start_text, end_text |-> end_text, duration |-> duration]
\* an empty dict, and None in the place of the dict
EmptyAROutput == [empty |-> TRUE]
NoAROutput == [none |-> TRUE]
TimeStandardization(start, end, duration) ==
    [kind |-> "TimeStandardization", start |-> start, end |-> end, duration |-> duration]
TSRaise(kind, error) == [kind |-> kind, error |-> error]

\* standardize; now is what datetime.now(pytz.timezone(timezone)) reads
standardize(ar_output, timezone, now) ==
    IF ar_output \in {EmptyAROutput, NoAROutput}
    THEN TSRaise("ValueError", "AR output cannot be empty")
    ELSE IF ar_output.start_text.fmt \in {"none", "empty"}
            \/ ar_output.end_text.fmt \in {"none", "empty"}
    THEN TSRaise("ValueError", "Both start_text and end_text are required")
    ELSE IF ParseText(ar_output.start_text) = <<>>
    THEN TSRaise("ValueError", "Could not parse start_text")
    ELSE IF ParseText(ar_output.end_text) = <<>>
    THEN TSRaise("ValueError", "Could not parse end_text")
    ELSE
    LET end_text == ar_output.end_text
        is_eod == /\ end_text.fmt \in {"canonical", "extended"}
                  /\ end_text.hour = 11 /\ end_text.minute = 59 /\ end_text.ampm = "pm"
        start_dt == determine_seconds(
                        apply_timezone(ParseText(ar_output.start_text)[1], timezone), FALSE)
        end_dt == determine_seconds(
                      apply_timezone(ParseText(end_text)[1], timezone), is_eod)
        adjusted == adjust_past_times(start_dt, end_dt, now)
        enforced == enforce_invariant(adjusted[1], adjusted[2])
    IN  TimeStandardization(isoformat(enforced[1]), isoformat(enforced[2]),
                            normalize_duration(ar_output.duration))

\* standardize_safe: the fallback hands the duration on as it came
standardize_safe(ar_output, timezone, now) ==
    LET r == standardize(ar_output, timezone, now)
    IN  IF r.kind = "TimeStandardization" THEN r
        ELSE IF ar_output = NoAROutput
        THEN TSRaise("AttributeError", "'NoneType' object has no attribute 'get'")
        ELSE TimeStandardization(
                 isoformat(now), isoformat(EndOfDay(now)),
                 IF ar_output = EmptyAROutput \/ ar_output.duration.form = "none"
                 THEN <<>> ELSE <<ar_output.duration>>)

-----------------------------------------------------------------------------
(* The Time Standardizer's specification: the Absolute Resolver's output,    *)
(* the timezone and the clock are drawn at the start; a step runs            *)
(* standardize or standardize_safe, and a further step hands the result back *)
(* to standardize as start_text, end_text and duration                       *)

TsClocks == {<<9, 0, "am">>, <<5, 0, "pm">>, <<11, 59, "pm">>, <<11, 59, "PM">>}
TsTexts ==
    {CanonicalText(d, c[1], c[2], c[3]) : d \in {1, 2}, c \in TsClocks}
        \cup { CanonicalText(0, 9, 0, "am"), CanonicalText(0, 5, 0, "pm"),
               ExtendedText(1, 9, 0, "am"), CanonicalText(1, 13, 0, "pm"),
               IsoText(1, 9, 0, 0, -240), IsoText(2, 23, 59, 59, -300),
               IsoText(2, 17, 0, 30, 330),
               IsoFractionText(2, 9, 0, 0, 500000, -300),
               OtherText, NoText, EmptyText }
TsDurations ==
    { NoDuration, DurationText("minutes", 0, 45), DurationText("compound", 2, 30),
      DurationText("decimal", 1, 50), DurationText("an hour", 0, 0),
      IsoDurationText(Duration(<<>>, <<30>>)), DurationText("other", 0, 0) }
TsNows(timezone) ==
    {DateTime(d, c[1], c[2], <<UtcOffset(timezone, d, c[1])>>) :
        d \in {1, 2},
        c \in {<<HMS(8, 0, 0), 0>>, <<HMS(12, 0, 0), 500000>>,
               <<HMS(23, 59, 59), 0>>, <<HMS(23, 59, 59), 500000>>}}
TSInput(call, ar_output, timezone, now) ==
    [kind |-> "call", call |-> call, ar_output |-> ar_output, timezone |-> timezone,
     now |-> now]
TSInputs(calls) ==
    {TSInput(call, ar, tz, now) :
        call \in calls,
        ar \in {AROutput(s, e, d) : s \in TsTexts, e \in TsTexts, d \in TsDurations}
                   \cup {EmptyAROutput, NoAROutput},
        tz \in {"America/New_York"}, now \in TsNows("America/New_York")}
    \cup
    {TSInput(call, AROutput(s, e, NoDuration), "Asia/Kolkata", now) :
        call \in calls,
        s \in TsTexts, e \in TsTexts, now \in TsNows("Asia/Kolkata")}

InitTS ==
    /\ InitEC /\ RetryIdle /\ SchedIdle /\ TAIdle /\ BridgeIdle /\ TDIdle /\ LDIdle /\ PLIdle
    /\ tsIn \in TSInputs({"standardize", "standardize_safe"})
    /\ tsOut = NoSched
    /\ tsAgain = NoSched

Standardize ==
    /\ tsOut = NoSched
    /\ tsIn.call = "standardize"
    /\ tsOut' = standardize(tsIn.ar_output, tsIn.timezone, tsIn.now)
    /\ UNCHANGED <<tsIn, tsAgain>>

StandardizeSafe ==
    /\ tsOut = NoSched
    /\ tsIn.call = "standardize_safe"
    /\ tsOut' = standardize_safe(tsIn.ar_output, tsIn.timezone, tsIn.now)
    /\ UNCHANGED <<tsIn, tsAgain>>

\* the duration of a result, as the string it is
DurationString(duration) ==
    IF duration = <<>> THEN NoDuration
    ELSE IF "form" \in DOMAIN duration[1] THEN duration[1]
    ELSE IsoDurationText(duration[1])

\* the caller hands the result back to standardize (same timezone, same clock)
StandardizeAgain ==
    /\ tsOut # NoSched
    /\ tsOut.kind = "TimeStandardization"
    /\ tsAgain = NoSched
    /\ tsAgain' = standardize(AROutput(tsOut.start, tsOut.end,
                                       DurationString(tsOut.duration)),
                              tsIn.timezone, tsIn.now)
    /\ UNCHANGED <<tsIn, tsOut>>

NextTS ==
    \/ Standardize /\ UNCHANGED <<ecVars, retryVars, schedVars, taVars, bridgeVars, tdVars, ldVars, plVars>>
    \/ StandardizeSafe /\ UNCHANGED <<ecVars, retryVars, schedVars, taVars, bridgeVars, tdVars, ldVars, plVars>>
    \/ StandardizeAgain /\ UNCHANGED <<ecVars, retryVars, schedVars, taVars, bridgeVars, tdVars, ldVars, plVars>>

SpecTS == InitTS /\ [][NextTS]_vars

\* C12, as the specification states it: for every parsed start, every parsed
\* end and every current instant, the result of standardize and of the
\* fallback of standardize_safe satisfies start <= end.
C12_StartNotAfterEnd ==
    (tsOut # NoSched /\ tsOut.kind = "TimeStandardization") =>
        IsoInstant(tsOut.start) <= IsoInstant(tsOut.end)

\* C12: the part that holds: every result of standardize itself, and every
\* result standardize_safe hands on from it, satisfies start <= end
C12_StandardizeStartNotAfterEnd ==
    (tsOut # NoSched /\ tsOut.kind = "TimeStandardization"
        /\ standardize(tsIn.ar_output, tsIn.timezone, tsIn.now).kind
               = "TimeStandardization") =>
        IsoInstant(tsOut.start) <= IsoInstant(tsOut.end)

\* C25: the duration of a result is null or an ISO-8601 duration PT[nH][nM]
\* (a Duration, or the text of one)
C25_IsoOrNull(duration) ==
    \/ duration = <<>>
    \/ /\ "form" \notin DOMAIN duration[1]
       /\ DOMAIN duration[1] = {"H", "M"}
       /\ duration[1].H # <<>> \/ duration[1].M # <<>>
    \/ /\ "form" \in DOMAIN duration[1]
       /\ duration[1].form = "iso"
\* the phrases _normalize_duration turns into a duration
C25_Normalizable(text) == normalize_duration(text) # <<>>
\* the phrase the call was given: ar_output.get('duration')
C25_Raw ==
    IF tsIn.ar_output \in {EmptyAROutput, NoAROutput} THEN NoDuration
    ELSE tsIn.ar_output.duration

\* C25, as the specification states it: the duration of every result of
\* standardize and of standardize_safe, the fallback included, is null or an
\* ISO-8601 duration PT[nH][nM]; a phrase that cannot be normalized gives null.
C25_DurationIsoOrNull ==
    (tsOut # NoSched /\ tsOut.kind = "TimeStandardization") =>
        /\ C25_IsoOrNull(tsOut.duration)
        /\ ~C25_Normalizable(C25_Raw) => tsOut.duration = <<>>

\* C25, what the code does keep: a result that standardize produced carries
\* the normalized duration, null when the phrase cannot be normalized.
C25_StandardizeDurationIsoOrNull ==
    (tsOut # NoSched /\ tsOut.kind = "TimeStandardization"
        /\ standardize(tsIn.ar_output, tsIn.timezone, tsIn.now).kind
               = "TimeStandardization") =>
        /\ C25_IsoOrNull(tsOut.duration)
        /\ tsOut.duration = normalize_duration(C25_Raw)
        /\ "form" \notin UNION {DOMAIN tsOut.duration[i] : i \in 1..Len(tsOut.duration)}

\* C30: standardize returned a window
C30_Standardized ==
    /\ tsOut # NoSched
    /\ tsOut.kind = "TimeStandardization"
    /\ standardize(tsIn.ar_output, tsIn.timezone, tsIn.now).kind = "TimeStandardization"
\* the end the text names, in the timezone, before any adjustment
C30_ParsedEnd ==
    LET end_text == tsIn.ar_output.end_text
        is_eod == /\ end_text.fmt \in {"canonical", "extended"}
                  /\ end_text.hour = 11 /\ end_text.minute = 59 /\ end_text.ampm = "pm"
    IN  determine_seconds(apply_timezone(ParseText(end_text)[1], tsIn.timezone), is_eod)
C30_ParsedStart ==
    determine_seconds(apply_timezone(ParseText(tsIn.ar_output.start_text)[1],
                                     tsIn.timezone), FALSE)

\* C30, as the specification states it: the window standardize returns never
\* lies entirely in the past: end >= NOW for every parsed start and end,
\* also for values more than one day before NOW.
C30_EndNotBeforeNow ==
    C30_Standardized => IsoInstant(tsOut.end) >= TsInstant(tsIn.now)

\* C30, what the code does keep: end >= NOW unless the parsed start and end
\* are both before NOW and the end is still before NOW one day later.
C30_EndNotBeforeNowWithinADay ==
    (/\ C30_Standardized
     /\ \/ TsInstant(C30_ParsedStart) >= TsInstant(tsIn.now)
        \/ TsInstant(PlusOneDay(C30_ParsedEnd)) >= TsInstant(tsIn.now)) =>
        IsoInstant(tsOut.end) >= TsInstant(tsIn.now)

\* C13, as the specification states it: handing a result {start, end,
\* duration} back to standardize as start_text, end_text and duration, with
\* the same timezone and the same clock, returns the same start, the same end
\* and the same duration.
C13_Idempotent ==
    tsAgain # NoSched => tsAgain = tsOut

\* C13: the part that holds: a result without a duration whose start and end
\* are whole minutes not before the clock, written with the offset the
\* timezone has at that wall time, comes back unchanged
C13_IdempotentOnPlainResults ==
    (/\ tsAgain # NoSched
     /\ tsOut.duration = <<>>
     /\ \A t \in {tsOut.start, tsOut.end} :
           /\ t.fmt = "iso" /\ t.second = 0
           /\ IsoInstant(t) >= TsInstant(tsIn.now)
           /\ t.off = UtcOffset(tsIn.timezone, t.day, HMS(t.hour, t.minute, 0)))
        => tsAgain = tsOut

-----------------------------------------------------------------------------
(* The Task Difficulty Analyzer (agents/task_difficulty_analyzer.py).        *)
(* An optional value is <<>> (None, or a key the JSON does not have) or      *)
(* <<v>>; <<NULL>> is a JSON null where a string is expected.                *)

TaskDifficultyAnalysis(calendar, type, title, duration) ==
    [kind |-> "TaskDifficultyAnalysis", calendar |-> calendar, type |-> type,
     title |-> title, duration |-> duration]
TDRaise(kind, error) == [kind |-> kind, error |-> error]

\* a query: None, a string of blanks, or a text with or without a work keyword
\* and a home keyword
NoQuery == [text |-> "none", has_work |-> FALSE, has_home |-> FALSE]
BlankQuery == [text |-> "blank", has_work |-> FALSE, has_home |-> FALSE]
Query(has_work, has_home) == [text |-> "text", has_work |-> has_work, has_home |-> has_home]
\* query.strip()[:50]
QueryTitle(query) == "query.strip()[:50]"

\* _find_work_home_calendars(_fetch_calendars()): the ids found
WorkHomeIds(work_id, home_id) == [work_id |-> work_id, home_id |-> home_id]

\* what self.llm.invoke returns: it raises, it answers no JSON, it answers
\* JSON that is no object, or it answers an object (bare, fenced or in prose)
LLMRaises == [kind |-> "raise"]
LLMNoJson == [kind |-> "text"]
LLMJsonList == [kind |-> "list"]
LLMJson(wrap, calendar, type, title, duration) ==
    [kind |-> "object", wrap |-> wrap, calendar |-> calendar, type |-> type,
     title |-> title, duration |-> duration]

\* lines 267-288: the calendar id of the answer, repaired when it names
\* neither the Work nor the Home calendar
FixCalendar(analysis_data, query, work_id, home_id) ==
    LET calendar_id == analysis_data.calendar
    IN  IF calendar_id # <<>> /\ calendar_id # work_id /\ calendar_id # home_id
        THEN IF query.has_work /\ work_id # <<>> THEN work_id
             ELSE IF query.has_home /\ home_id # <<>> THEN home_id
             ELSE IF work_id # <<>> THEN work_id
             ELSE home_id
        ELSE calendar_id

\* lines 290-297: a duration makes the task simple
TaskType_FromLLM(duration, analysis_data) ==
    IF analysis_data.type \in {<<"simple">>, <<"complex">>}
    THEN analysis_data.type[1] ELSE "complex"
TaskType(duration, analysis_data) ==
    IF duration # <<>> THEN "simple"
    ELSE IF analysis_data.type \in {<<"simple">>, <<"complex">>}
    THEN analysis_data.type[1]
    ELSE "complex"

\* line 300: the duration of the input, not the one the LLM wrote
OutputDuration_Echoed(duration, analysis_data) == analysis_data.duration
OutputDuration(duration, analysis_data) == duration

\* analyze
analyze(query, duration, work_home_ids, response) ==
    IF query.text \in {"none", "blank"} THEN TDRaise("ValueError", "Query cannot be empty")
    ELSE IF response.kind # "object"
    THEN TDRaise("ValueError", "Task difficulty analysis failed")
    ELSE IF response.title = <<NULL>>          \* title: str rejects None
    THEN TDRaise("ValueError", "Task difficulty analysis failed")
    ELSE TaskDifficultyAnalysis(
             FixCalendar(response, query, work_home_ids.work_id, work_home_ids.home_id),
             TaskType(duration, response),
             IF response.title = <<>> THEN QueryTitle(query) ELSE response.title[1],
             OutputDuration(duration, response))

\* lines 326-340: the fallback; the calendars are fetched again
FallbackType(duration) == IF duration # <<>> THEN "simple" ELSE "complex"
analyze_safe(query, duration, work_home_ids, response, work_home_ids_again) ==
    LET r == analyze(query, duration, work_home_ids, response)
    IN  IF r.kind = "TaskDifficultyAnalysis" THEN r
        ELSE IF query.text = "none"
        THEN TDRaise("AttributeError", "'NoneType' object has no attribute 'strip'")
        ELSE TaskDifficultyAnalysis(
                 IF work_home_ids_again.work_id # <<>> THEN work_home_ids_again.work_id
                 ELSE work_home_ids_again.home_id,
                 FallbackType(duration), QueryTitle(query), duration)

-----------------------------------------------------------------------------
(* The analyzer's specification: the query, the duration, the calendars and  *)
(* the LLM's answer are drawn at the start; a step runs analyze or           *)
(* analyze_safe                                                              *)

TdQueries == {NoQuery, BlankQuery, Query(FALSE, FALSE), Query(TRUE, FALSE), Query(TRUE, TRUE)}
TdDurations == {<<>>, <<Duration(<<>>, <<30>>)>>, <<Duration(<<1>>, <<30>>)>>}
TdWorkHomeIds ==
    {WorkHomeIds(w, h) : w \in {<<>>, <<"work-id">>}, h \in {<<>>, <<"home-id">>}}
TdResponses ==
    {LLMRaises, LLMNoJson, LLMJsonList} \cup
    {LLMJson(wrap, c, t, title, d) :
        wrap \in {"bare", "fenced"},
        c \in {<<>>, <<"work-id">>, <<"home-id">>, <<"other-id">>},
        t \in {<<>>, <<"simple">>, <<"complex">>, <<"medium">>},
        title \in {<<>>, <<NULL>>, <<"Call mom">>},
        d \in {<<>>, <<Duration(<<>>, <<30>>)>>, <<Duration(<<2>>, <<>>)>>}}
TDInput(call, query, duration, work_home_ids, response, work_home_ids_again) ==
    [kind |-> "call", call |-> call, query |-> query, duration |-> duration,
     work_home_ids |-> work_home_ids, response |-> response,
     work_home_ids_again |-> work_home_ids_again]
TDInputs(queries) ==
    {TDInput("analyze", q, d, ids, r, ids) :
        q \in queries, d \in TdDurations, ids \in TdWorkHomeIds, r \in TdResponses}
    \cup
    {TDInput("analyze_safe", q, d, ids, r, again) :
        q \in queries, d \in TdDurations, ids \in TdWorkHomeIds, r \in TdResponses,
        again \in TdWorkHomeIds}

InitTD ==
    /\ InitEC /\ RetryIdle /\ SchedIdle /\ TAIdle /\ BridgeIdle /\ TSIdle /\ LDIdle /\ PLIdle
    /\ tdIn \in TDInputs(TdQueries)
    /\ tdOut = NoSched

Analyze ==
    /\ tdOut = NoSched
    /\ tdIn.call = "analyze"
    /\ tdOut' = analyze(tdIn.query, tdIn.duration, tdIn.work_home_ids, tdIn.response)
    /\ UNCHANGED tdIn

AnalyzeSafe ==
    /\ tdOut = NoSched
    /\ tdIn.call = "analyze_safe"
    /\ tdOut' = analyze_safe(tdIn.query, tdIn.duration, tdIn.work_home_ids,
                             tdIn.response, tdIn.work_home_ids_again)
    /\ UNCHANGED tdIn

NextTD ==
    \/ Analyze /\ UNCHANGED <<ecVars, retryVars, schedVars, taVars, bridgeVars, tsVars, ldVars, plVars>>
    \/ AnalyzeSafe /\ UNCHANGED <<ecVars, retryVars, schedVars, taVars, bridgeVars, tsVars, ldVars, plVars>>

SpecTD == InitTD /\ [][NextTD]_vars

\* C14: whenever the duration given to analyze or analyze_safe is not null,
\* the classification returned has type = simple, whatever the LLM answered and
\* whether or not the LLM call or the parsing of its JSON failed.
C14_DurationMakesSimple ==
    (tdOut # NoSched /\ tdOut.kind = "TaskDifficultyAnalysis" /\ tdIn.duration # <<>>) =>
        tdOut.type = "simple"

\* C14: with a duration given, the LLM answered complex and analyze returned
\* simple; or the LLM call failed and analyze_safe returned simple
C14_Witness ==
    /\ tdOut # NoSched /\ tdOut.kind = "TaskDifficultyAnalysis"
    /\ tdIn.duration # <<>>
    /\ tdOut.type = "simple"
    /\ \/ tdIn.call = "analyze" /\ tdIn.response.kind = "object"
          /\ tdIn.response.type = <<"complex">>
       \/ tdIn.call = "analyze_safe" /\ tdIn.response = LLMRaises

\* C15: the duration of the classification returned by analyze or
\* analyze_safe is the duration given as input, for every answer of the LLM
\* (one that echoes another duration included) and on the fallback path.
C15_DurationPassedThrough ==
    (tdOut # NoSched /\ tdOut.kind = "TaskDifficultyAnalysis") =>
        tdOut.duration = tdIn.duration

\* C15: the LLM echoed a duration that is not the input's and the
\* classification carries the input's
C15_Witness ==
    /\ tdOut # NoSched /\ tdOut.kind = "TaskDifficultyAnalysis"
    /\ tdIn.response.kind = "object"
    /\ tdIn.response.duration # tdIn.duration
    /\ tdIn.response.duration # <<>>
    /\ tdOut.duration = tdIn.duration

-----------------------------------------------------------------------------
(* The LLM Decomposer (agents/llm_decomposer.py).                            *)
(* A duration string is modelled by its parts: whether it starts with "PT"   *)
(* (in either case), whether it is written in upper case, the number before  *)
(* an H, the number before an M (<<>> when absent), and whether anything     *)
(* else follows ("PT30S", "PT 30M").                                         *)

DurationStr(pt, upper, H, M, rest) ==
    [pt |-> pt, upper |-> upper, H |-> H, M |-> M, rest |-> rest]
PT3H == DurationStr(TRUE, TRUE, <<3>>, <<>>, FALSE)
PT45M == DurationStr(TRUE, TRUE, <<>>, <<45>>, FALSE)
PT1H == DurationStr(TRUE, TRUE, <<1>>, <<>>, FALSE)
\* duration.upper()
Upper(duration) == [duration EXCEPT !.upper = TRUE]

\* _validate_iso8601_duration
validate_iso8601_duration(duration) ==
    /\ duration.pt /\ ~duration.rest                \* ^PT(\d+H)?(\d+M)?$
    /\ duration.H # <<>> \/ duration.M # <<>>
    /\ duration.H # <<>> => duration.H[1] <= 3
    /\ (duration.M # <<>> /\ duration.H # <<>>) =>
           ~(duration.H[1] = 3 /\ duration.M[1] > 0)

\* _parse_duration_to_minutes
parse_duration_to_minutes(duration) ==
    (IF duration.H = <<>> THEN 0 ELSE duration.H[1]) * 60
        + (IF duration.M = <<>> THEN 0 ELSE duration.M[1])

\* _cap_duration_to_pt3h
cap_duration_to_pt3h(duration) ==
    IF parse_duration_to_minutes(duration) <= 3 * 60 THEN duration ELSE PT3H

\* a subtask as the LLM wrote it: a title of 3 characters or more, a shorter
\* one, or a null in its place (on which .strip() raises)
RawSubtask(title, duration) == [title |-> title, duration |-> duration]
LdSubtask(title, duration) == [title |-> title, duration |-> duration]
TitleOk(title) == title \notin {"", "ab", NULL}
DefaultSubtasks ==
    <<LdSubtask("Plan and outline", PT45M), LdSubtask("Execute and finalize", PT1H)>>

\* lines 148-169: one subtask of the loop: <<>> when it is skipped
ValidateOne(st) ==
    IF ~TitleOk(st.title) THEN <<>>
    ELSE IF ~validate_iso8601_duration(st.duration)
    THEN IF st.duration.pt
         THEN <<LdSubtask(st.title,
                          cap_duration_to_pt3h(cap_duration_to_pt3h(Upper(st.duration))))>>
         ELSE <<>>
    ELSE <<LdSubtask(st.title, cap_duration_to_pt3h(st.duration))>>
\* lines 146-169: the subtasks that survive, in their order
Validated(subtasks) == Concat([i \in 1..Len(subtasks) |-> ValidateOne(subtasks[i])])
\* lines 171-178
AtLeastTwo(validated) == IF Len(validated) < 2 THEN DefaultSubtasks ELSE validated
\* lines 180-182
AtMostFive_Unlimited(validated) == validated
AtMostFive(validated) == IF Len(validated) > 5 THEN SubSeq(validated, 1, 5) ELSE validated
\* _validate_and_fix_subtasks
validate_and_fix_subtasks(subtasks) == AtMostFive(AtLeastTwo(Validated(subtasks)))

TaskDecomposition(calendar, type, title, subtasks) ==
    [kind |-> "TaskDecomposition", calendar |-> calendar, type |-> type,
     title |-> title, subtasks |-> subtasks]
LDRaise(kind, error) == [kind |-> kind, error |-> error]

\* the TD output handed over: None, an empty dict, or a dict; a missing title
\* is <<>>, a null title <<NULL>>
NoTD == [none |-> TRUE]
EmptyTD == [empty |-> TRUE]
TDDict(calendar, type, title) == [calendar |-> calendar, type |-> type, title |-> title]

\* the LLM's answer: it raises, it answers no JSON, or it answers an object
\* whose "subtasks" is the list given
LLMSubtasks(subtasks) == [kind |-> "object", subtasks |-> subtasks]

\* decompose
decompose(td_output, response) ==
    IF td_output \in {NoTD, EmptyTD} THEN LDRaise("ValueError", "TD output cannot be empty")
    ELSE IF td_output.type # "complex"
    THEN LDRaise("ValueError", "LLM Decomposer only works with complex tasks")
    ELSE IF td_output.title \in {<<>>, <<NULL>>, <<"">>}
    THEN LDRaise("ValueError", "Task title cannot be empty")
    ELSE IF response.kind # "object"
    THEN LDRaise("ValueError", "Task decomposition failed")
    ELSE IF response.subtasks = <<>>
    THEN LDRaise("ValueError", "Task decomposition failed: LLM returned no subtasks")
    ELSE IF \E i \in 1..Len(response.subtasks) : response.subtasks[i].title = NULL
    THEN LDRaise("ValueError", "Task decomposition failed")
    ELSE TaskDecomposition(td_output.calendar, td_output.type, td_output.title[1],
                           validate_and_fix_subtasks(response.subtasks))

\* decompose_safe
decompose_safe(td_output, response) ==
    LET r == decompose(td_output, response)
    IN  IF r.kind = "TaskDecomposition" THEN r
        ELSE IF td_output = NoTD
        THEN LDRaise("AttributeError", "'NoneType' object has no attribute 'get'")
        ELSE IF td_output # EmptyTD /\ td_output.title = <<NULL>>   \* title: str
        THEN LDRaise("ValidationError", "title")
        ELSE TaskDecomposition(
                 IF td_output = EmptyTD THEN <<>> ELSE td_output.calendar,
                 "complex",
                 IF td_output = EmptyTD \/ td_output.title = <<>> THEN "Complex task"
                 ELSE td_output.title[1],
                 DefaultSubtasks)

-----------------------------------------------------------------------------
(* The decomposer's specification: the TD output and the LLM's answer are    *)
(* drawn at the start; a step runs decompose or decompose_safe               *)

MaxRaw == 6      \* subtasks in the LLM's answer
LdTitles == <<"Step 1", "Step 2", "Step 3", "Step 4", "Step 5", "Step 6", "Step 7">>
\* what the LLM may write for one subtask: <<title is fine, duration>>
LdKinds ==
    { <<"ok", PT45M>>,
      <<"ok", DurationStr(TRUE, TRUE, <<4>>, <<>>, FALSE)>>,       \* "PT4H"
      <<"ok", DurationStr(TRUE, TRUE, <<>>, <<>>, TRUE)>>,         \* "PT30S"
      <<"ok", DurationStr(TRUE, FALSE, <<>>, <<200>>, FALSE)>>,    \* "pt200m"
      <<"ok", DurationStr(TRUE, TRUE, <<3>>, <<15>>, FALSE)>>,     \* "PT3H15M"
      <<"ok", DurationStr(FALSE, FALSE, <<>>, <<>>, TRUE)>>,       \* "90 minutes"
      <<"ab", PT1H>>,
      <<NULL, PT1H>> }
\* the kinds used in the longer answers
LdFewKinds ==
    { <<"ok", PT45M>>, <<"ok", DurationStr(TRUE, TRUE, <<4>>, <<>>, FALSE)>>, <<"ab", PT1H>> }
LdRaw(kinds) ==
    [i \in 1..Len(kinds) |->
        RawSubtask(IF kinds[i][1] = "ok" THEN LdTitles[i] ELSE kinds[i][1], kinds[i][2])]
LdResponses(max_raw) ==
    {LLMRaises, LLMNoJson}
        \cup {LLMSubtasks(LdRaw(k)) : k \in UNION {[1..n -> LdKinds] : n \in 0..2}}
        \cup {LLMSubtasks(LdRaw(k)) : k \in UNION {[1..n -> LdFewKinds] : n \in 3..max_raw}}
LdTDOutputs ==
    { NoTD, EmptyTD, TDDict(<<"work-id">>, "simple", <<"Plan trip">>),
      TDDict(<<"work-id">>, "complex", <<>>), TDDict(<<"work-id">>, "complex", <<NULL>>),
      TDDict(<<"work-id">>, "complex", <<"">>),
      TDDict(<<"work-id">>, "complex", <<"Plan trip">>),
      TDDict(<<>>, "complex", <<"Plan trip">>) }
LDInput(call, td_output, response) ==
    [kind |-> "call", call |-> call, td_output |-> td_output, response |-> response]

InitLD ==
    /\ InitEC /\ RetryIdle /\ SchedIdle /\ TAIdle /\ BridgeIdle /\ TSIdle /\ TDIdle /\ PLIdle
    /\ ldIn \in {LDInput(call, td, r) :
                    call \in {"decompose", "decompose_safe"}, td \in LdTDOutputs,
                    r \in LdResponses(MaxRaw)}
    /\ ldOut = NoSched

Decompose ==
    /\ ldOut = NoSched
    /\ ldIn.call = "decompose"
    /\ ldOut' = decompose(ldIn.td_output, ldIn.response)
    /\ UNCHANGED ldIn

DecomposeSafe ==
    /\ ldOut = NoSched
    /\ ldIn.call = "decompose_safe"
    /\ ldOut' = decompose_safe(ldIn.td_output, ldIn.response)
    /\ UNCHANGED ldIn

NextLD ==
    \/ Decompose /\ UNCHANGED <<ecVars, retryVars, schedVars, taVars, bridgeVars, tsVars, tdVars, plVars>>
    \/ DecomposeSafe /\ UNCHANGED <<ecVars, retryVars, schedVars, taVars, bridgeVars, tsVars, tdVars, plVars>>

SpecLD == InitLD /\ [][NextLD]_vars

\* C16, C17: the subtasks of the LLM's answer that pass the title and duration
\* checks, with the titles they had; none when decompose raised before or
\* while it read the answer
LD_Survivors ==
    IF decompose(ldIn.td_output, ldIn.response).kind = "TaskDecomposition"
    THEN SelectSeq(ldIn.response.subtasks,
                   LAMBDA st : st.title \notin {"", "ab"} /\ st.duration.pt)
    ELSE <<>>
LD_Titles(subtasks) == [i \in 1..Len(subtasks) |-> subtasks[i].title]

\* C16: every decomposition returned by decompose or decompose_safe has
\* between 2 and 5 subtasks; when fewer than 2 subtasks of the LLM survive
\* validation the two default subtasks take their place, and when more than 5
\* survive only the first 5 are kept, in their original order.
C16_TwoToFiveSubtasks ==
    (ldOut # NoSched /\ ldOut.kind = "TaskDecomposition") =>
        /\ Len(ldOut.subtasks) \in 2..5
        /\ Len(LD_Survivors) < 2 => ldOut.subtasks = DefaultSubtasks
        /\ Len(LD_Survivors) >= 2 =>
              LD_Titles(ldOut.subtasks)
                  = LD_Titles(SubSeq(LD_Survivors, 1, Min(5, Len(LD_Survivors))))

\* C16: six subtasks survived and the first five came back
C16_Witness ==
    /\ ldOut # NoSched /\ ldOut.kind = "TaskDecomposition"
    /\ Len(LD_Survivors) = 6
    /\ LD_Titles(ldOut.subtasks) = SubSeq(LdTitles, 1, 5)

\* C17, as the specification states it: every subtask of a decomposition
\* returned has a duration that _validate_iso8601_duration accepts (PT, then
\* hours and/or minutes, at least one of them) and that is at most 180 minutes.
C17_DurationsValid ==
    (ldOut # NoSched /\ ldOut.kind = "TaskDecomposition") =>
        \A i \in 1..Len(ldOut.subtasks) :
            /\ validate_iso8601_duration(ldOut.subtasks[i].duration)
            /\ parse_duration_to_minutes(ldOut.subtasks[i].duration) <= 180

\* C17: the part that holds: no subtask returned is longer than 180 minutes
C17_DurationsCapped ==
    (ldOut # NoSched /\ ldOut.kind = "TaskDecomposition") =>
        \A i \in 1..Len(ldOut.subtasks) :
            parse_duration_to_minutes(ldOut.subtasks[i].duration) <= 180

-----------------------------------------------------------------------------
(* The orchestrator (Streamlined_Agents/app.py, run_pipeline).               *)
(* The agents are taken by what they hand back: an object (with the fields   *)
(* the orchestrator reads), or an exception.  plTrace lists the calls the    *)
(* orchestrator made to the agents, in order, each with its outcome.         *)

Stages == <<"UQ", "SE", "AR", "TS", "TD", "LD", "TA", "EC">>
StageIndex(stage) == CHOOSE i \in 1..Len(Stages) : Stages[i] = stage
None == [kind |-> "None"]
\* a call of a stage's agent and how it ended: "ok", "raise", or, for the
\* Event Creator, "failed" (a result with success = false); events is the
\* number of calendar events the call wrote
Call(stage, outcome, error, events) ==
    [stage |-> stage, outcome |-> outcome, error |-> error, events |-> events]
\* the dict run_pipeline returns; error is <<>> when the dict has no such key
PipelineResult(success, error) == [kind |-> "result", success |-> success, error |-> error]
\* f"{stage} failed: {e}"
StageFailed(stage, e) == [stage |-> stage, error |-> e]
NoLocals ==
    [query |-> "", uq_result |-> None, se_result |-> None, ar_result |-> None,
     ts_result |-> None, td_result |-> None, ld_result |-> None, ta_result |-> None]

\* UserQueryHandler.process_query (user_query.py)
process_query(query) ==
    IF query \in {"", "   "} THEN [kind |-> "raise", error |-> "Query cannot be empty"]
    ELSE [kind |-> "UserQuery", query |-> query]

\* what an agent's call can end in: the object, or an exception
AgentOutcomes(objects) == objects \cup {[kind |-> "raise", error |-> "error"]}
PlDurations == {<<>>, <<Duration(<<>>, <<30>>)>>}

\* lines 95-108: the request begins with the User Query Handler
RunPipeline(query) ==
    /\ plPc = "idle"
    /\ LET uq_result == process_query(query)
       IN  IF uq_result.kind = "raise"
           THEN /\ plTrace' = <<Call("UQ", "raise", uq_result.error, 0)>>
                /\ plOut' = PipelineResult(FALSE, <<StageFailed("UQ", uq_result.error)>>)
                /\ plPc' = "done"
                /\ plLocals' = [NoLocals EXCEPT !.query = query]
           ELSE /\ plTrace' = <<Call("UQ", "ok", "", 0)>>
                /\ plLocals' = [NoLocals EXCEPT !.query = query, !.uq_result = uq_result]
                /\ plPc' = "SE"
                /\ UNCHANGED plOut

\* the common shape of steps 2 to 5: the agent is called when the result
\* before it is there; an exception ends the request with "<stage> failed"
EarlyStep(stage, next, field, before, r) ==
    /\ plPc = stage
    /\ IF before = None
       THEN /\ r = None
            /\ plLocals' = [plLocals EXCEPT ![field] = None]
            /\ plPc' = next
            /\ UNCHANGED <<plTrace, plOut>>
       ELSE /\ r # None
            /\ IF r.kind = "raise"
               THEN /\ plTrace' = Append(plTrace, Call(stage, "raise", r.error, 0))
                    /\ plOut' = PipelineResult(FALSE, <<StageFailed(stage, r.error)>>)
                    /\ plPc' = "done"
                    /\ UNCHANGED plLocals
               ELSE /\ plTrace' = Append(plTrace, Call(stage, "ok", "", 0))
                    /\ plLocals' = [plLocals EXCEPT ![field] = r]
                    /\ plPc' = next
                    /\ UNCHANGED plOut

\* lines 110-128: Slot Extractor (extract_slots_safe is called in any case)
StepSE(r) == EarlyStep("SE", "AR", "se_result", plLocals.uq_result, r)
\* lines 130-152: Absolute Resolver
StepAR(r) == EarlyStep("AR", "TS", "ar_result", plLocals.se_result, r)
\* lines 154-174: Time Standardizer
StepTS(r) == EarlyStep("TS", "TD", "ts_result", plLocals.ar_result, r)
\* lines 176-195: Task Difficulty Analyzer; a duration makes the task simple
StepTD(r) ==
    /\ plPc = "TD"
    /\ (r # None /\ r.kind = "TaskDifficultyAnalysis" /\ plLocals.ts_result # None
            /\ plLocals.ts_result.duration # <<>>) => r.type = "simple"
    /\ EarlyStep("TD", "LD", "td_result", plLocals.ts_result, r)

\* line 194: the decomposer runs for a complex task only
NeedsLD_Always(td_result) == td_result # None
NeedsLD(td_result) == td_result # None /\ td_result.type = "complex"

\* lines 197-220: LLM Decomposer; its exception is caught and the request
\* goes on
StepLD(r) ==
    /\ plPc = "LD"
    /\ IF NeedsLD(plLocals.td_result)
       THEN /\ r # None
            /\ IF r.kind = "raise"
               THEN /\ plTrace' = Append(plTrace, Call("LD", "raise", r.error, 0))
                    /\ plLocals' = [plLocals EXCEPT !.ld_result = None]
               ELSE /\ plTrace' = Append(plTrace, Call("LD", "ok", "", 0))
                    /\ plLocals' = [plLocals EXCEPT !.ld_result = r]
       ELSE /\ r = None
            /\ plLocals' = [plLocals EXCEPT !.ld_result = None]
            /\ UNCHANGED plTrace
    /\ plPc' = "TA"
    /\ UNCHANGED plOut

\* lines 222-263: Time Allotment Agent; its exception is caught and the
\* request goes on
StepTA(r) ==
    /\ plPc = "TA"
    /\ LET td_result == plLocals.td_result
           ld_result == plLocals.ld_result
           call == IF td_result # None /\ td_result.type = "simple"
                   THEN "schedule_simple_task"
                   ELSE IF ld_result # None /\ ld_result.type = "complex"
                   THEN "schedule_complex_task"
                   ELSE "none"
       IN  IF call = "none"
           THEN /\ r = None
                /\ plLocals' = [plLocals EXCEPT !.ta_result = None]
                /\ UNCHANGED plTrace
           ELSE /\ r # None
                /\ IF r.kind = "raise"
                   THEN /\ plTrace' = Append(plTrace, Call("TA", "raise", r.error, 0))
                        /\ plLocals' = [plLocals EXCEPT !.ta_result = None]
                   ELSE /\ r.type = (IF call = "schedule_simple_task"
                                     THEN "simple" ELSE "complex")
                        /\ plTrace' = Append(plTrace, Call("TA", "ok", "", 0))
                        /\ plLocals' = [plLocals EXCEPT !.ta_result = r]
    /\ plPc' = "EC"
    /\ UNCHANGED plOut

\* what create_simple_task / create_complex_task can end in: the events
\* written, and success or not (a simple task's event may have been written
\* when the store fails after it; a complex task may be created in part)
ECOutcomes(type) ==
    IF type = "simple"
    THEN {[kind |-> "CreateResult", success |-> TRUE, error |-> "", events |-> 1],
          [kind |-> "CreateResult", success |-> FALSE, error |-> "HTTP 500", events |-> 0],
          [kind |-> "CreateResult", success |-> FALSE, error |-> "Database error",
           events |-> 1],
          [kind |-> "raise", error |-> "error", events |-> 0]}
    ELSE {[kind |-> "CreateResult", success |-> TRUE, error |-> "", events |-> 2],
          [kind |-> "CreateResult", success |-> FALSE, error |-> "", events |-> 1],
          [kind |-> "CreateResult", success |-> FALSE, error |-> "", events |-> 0],
          [kind |-> "raise", error |-> "error", events |-> 0]}

\* lines 265-323: Event Creator Agent, and the return
StepEC(r) ==
    /\ plPc = "EC"
    /\ IF plLocals.ta_result = None
       THEN /\ r = None
            /\ UNCHANGED plTrace
            /\ plOut' = PipelineResult(FALSE, <<>>)
       ELSE /\ r \in ECOutcomes(plLocals.ta_result.type)
            /\ IF r.kind = "raise"
               THEN /\ plTrace' = Append(plTrace, Call("EC", "raise", r.error, r.events))
                    /\ plOut' = PipelineResult(FALSE, <<>>)
               ELSE /\ plTrace' = Append(plTrace,
                                         Call("EC", IF r.success THEN "ok" ELSE "failed",
                                              r.error, r.events))
                    /\ plOut' = PipelineResult(r.success, <<>>)
    /\ plPc' = "done"
    /\ UNCHANGED plLocals

-----------------------------------------------------------------------------
(* The orchestrator's specification *)

PlQueries == {"call mom tomorrow", "plan the trip", "", "   "}
\* the duration the Slot Extractor and the Absolute Resolver hand on, as text
PlDurationTexts == {NoDuration, DurationText("minutes", 0, 30)}
PlSEResults == {[kind |-> "SlotExtraction", duration |-> d] : d \in PlDurationTexts}
PlARResults == {[kind |-> "AbsoluteResolution", duration |-> d] : d \in PlDurationTexts}
PlTSResults == {[kind |-> "TimeStandardization", duration |-> d] : d \in PlDurations}
PlTDResults ==
    {[kind |-> "TaskDifficultyAnalysis", type |-> t] : t \in {"simple", "complex"}}
PlLDResults == {[kind |-> "TaskDecomposition", type |-> "complex"]}
PlTAResults == {[kind |-> "Scheduled", type |-> t] : t \in {"simple", "complex"}}

InitPL ==
    /\ InitEC /\ RetryIdle /\ SchedIdle /\ TAIdle /\ BridgeIdle /\ TSIdle /\ TDIdle /\ LDIdle
    /\ PLIdle

NextPL ==
    \/ \E query \in PlQueries :
          RunPipeline(query) /\ UNCHANGED <<ecVars, retryVars, schedVars, taVars, bridgeVars, tsVars, tdVars, ldVars>>
    \/ \E r \in AgentOutcomes(PlSEResults) \cup {None} :
          StepSE(r) /\ UNCHANGED <<ecVars, retryVars, schedVars, taVars, bridgeVars, tsVars, tdVars, ldVars>>
    \/ \E r \in AgentOutcomes(PlARResults) \cup {None} :
          StepAR(r) /\ UNCHANGED <<ecVars, retryVars, schedVars, taVars, bridgeVars, tsVars, tdVars, ldVars>>
    \/ \E r \in AgentOutcomes(PlTSResults) \cup {None} :
          StepTS(r) /\ UNCHANGED <<ecVars, retryVars, schedVars, taVars, bridgeVars, tsVars, tdVars, ldVars>>
    \/ \E r \in AgentOutcomes(PlTDResults) \cup {None} :
          StepTD(r) /\ UNCHANGED <<ecVars, retryVars, schedVars, taVars, bridgeVars, tsVars, tdVars, ldVars>>
    \/ \E r \in AgentOutcomes(PlLDResults) \cup {None} :
          StepLD(r) /\ UNCHANGED <<ecVars, retryVars, schedVars, taVars, bridgeVars, tsVars, tdVars, ldVars>>
    \/ \E r \in AgentOutcomes(PlTAResults) \cup {None} :
          StepTA(r) /\ UNCHANGED <<ecVars, retryVars, schedVars, taVars, bridgeVars, tsVars, tdVars, ldVars>>
    \/ \E r \in ECOutcomes("simple") \cup ECOutcomes("complex") \cup {None} :
          StepEC(r) /\ UNCHANGED <<ecVars, retryVars, schedVars, taVars, bridgeVars, tsVars, tdVars, ldVars>>

SpecPL == InitPL /\ [][NextPL]_vars

\* the calls of the trace that failed, by position
PL_Failed == {i \in 1..Len(plTrace) : plTrace[i].outcome # "ok"}
PL_Invoked(stage) == \E i \in 1..Len(plTrace) : plTrace[i].stage = stage

\* C18: within one run_pipeline request the stages start in the order UQ, SE,
\* AR, TS, TD, LD, TA, EC, each stage is invoked at most once, and LD is
\* invoked if and only if TD returned type = complex.
C18_StagesInOrder ==
    /\ \A i \in 1..(Len(plTrace) - 1) :
          StageIndex(plTrace[i].stage) < StageIndex(plTrace[i + 1].stage)
    /\ PL_Invoked("LD") =>
          plLocals.td_result # None /\ plLocals.td_result.type = "complex"
    /\ (plPc \in {"TA", "EC", "done"} /\ plLocals.td_result # None
            /\ plLocals.td_result.type = "complex") => PL_Invoked("LD")

\* C18: a request for a complex task went through all eight stages
C18_Witness ==
    /\ plPc = "done"
    /\ [i \in 1..Len(plTrace) |-> plTrace[i].stage] = Stages
    /\ plOut.success

C19_AbortsWithoutLaterStage ==
    (plPc = "done" /\ PL_Failed # {}) =>
        \A i \in PL_Failed :
            /\ i = Len(plTrace)
            /\ ~plOut.success
            /\ plTrace[i].stage \in {"UQ", "SE", "AR", "TS", "TD"} =>
                  /\ plOut.error = <<StageFailed(plTrace[i].stage, plTrace[i].error)>>
                  /\ \A j \in 1..Len(plTrace) : plTrace[j].events = 0

-----------------------------------------------------------------------------
(* Properties of the Event Creator *)

\* C1, as the specification states it: once a call has returned, a task has an
\* event_map row exactly when the bridge confirmed the creation of its event
\* (200 with an event id) and no later delete call has deleted the task.
C1_RowIffConfirmed ==
    pc = "idle" => DOMAIN event_map = confirmed

\* C1, amended: once a call has returned, a task has an event_map row exactly
\* when the bridge confirmed the creation of its event, the store transaction
\* of that create call committed, and no later committed delete call has listed
\* the task under deleted.
C1_RowIffPersisted ==
    pc = "idle" => DOMAIN event_map = persisted

\* C1: a delete call has just deleted one confirmed task while another
\* confirmed task keeps its row
C1_Witness ==
    /\ pc = "idle"
    /\ result.kind = "DeleteResult"
    /\ result.deleted # <<>>
    /\ lastDone.committed
    /\ ~lastDone.unchanged
    /\ DOMAIN event_map # {}
    /\ SimpleId \in persisted

\* C3: delete_by_id has returned for the parent, whose N children all had an
\* event_map row; the bridge answered 404 for exactly one of them and
\* "deleted" for the others, and the store committed
C3_OneChildGone ==
    /\ pc = "idle"
    /\ lastDone.op = "delete_by_id"
    /\ lastDone.id = ParentId
    /\ lastDone.committed
    /\ lastDone.subs # <<>>
    /\ ParentId \notin SeqToSet(lastDone.subs)
    /\ Cardinality({c \in SeqToSet(lastDone.subs) : lastDone.outcomes[c] = "404"}) = 1
    /\ \A c \in SeqToSet(lastDone.subs) : lastDone.outcomes[c] \in {"404", "deleted"}

\* C3, as the specification states it: in that case the child the bridge
\* reported gone is listed under skipped with reason "already_deleted", the
\* other N-1 children are listed under deleted, errors is empty, and no row of
\* the family remains in tasks or event_map.
C3_GoneChildSkipped ==
    C3_OneChildGone =>
        LET family == SeqToSet(lastDone.subs)
            gone == CHOOSE c \in family : lastDone.outcomes[c] = "404"
        IN  /\ result.skipped = <<[task_id |-> gone, reason |-> "already_deleted"]>>
            /\ Ids(result.deleted) = family \ {gone}
            /\ Len(result.deleted) = Len(lastDone.subs) - 1
            /\ result.errors = <<>>
            /\ ParentId \notin DOMAIN tasks
            /\ family \cap (DOMAIN tasks \cup DOMAIN event_map) = {}

\* C4: delete_by_parent_id has returned for a parent whose family the call
\* before it, a delete_by_parent_id of the same parent, had deleted in full
C4_SecondDelete ==
    /\ pc = "idle"
    /\ prevDone.op = "delete_by_parent_id"
    /\ lastDone.op = "delete_by_parent_id"
    /\ lastDone.id = prevDone.id
    /\ lastDone.committed

\* C4, as the specification states it: the second delete_by_parent_id returns
\* deleted and errors empty, skipped non-empty with reasons "already_deleted"
\* or "not_found" only, and leaves the store unchanged.
C4_SecondDeleteSkips ==
    C4_SecondDelete =>
        /\ result.deleted = <<>>
        /\ result.errors = <<>>
        /\ result.skipped # <<>>
        /\ \A i \in 1..Len(result.skipped) :
              result.skipped[i].reason \in {"already_deleted", "not_found"}
        /\ lastDone.unchanged

\* C5: create_complex_task succeeded for all N subtasks of a parent the store
\* held no rows of, and the next call, delete_by_parent_id of that parent, has
\* returned with every bridge delete answered "deleted"
C5_CreateThenDelete ==
    /\ pc = "idle"
    /\ prevDone.op = "create_complex_task"
    /\ lastDone.op = "delete_by_parent_id"
    /\ lastDone.id = prevDone.id
    /\ lastDone.committed
    /\ \A c \in DOMAIN lastDone.outcomes : lastDone.outcomes[c] = "deleted"

\* C5: a create_complex_task that succeeds for all N subtasks, followed by a
\* delete_by_parent_id whose bridge deletes all succeed, yields exactly N
\* entries in deleted (one per subtask), none in skipped or errors, and leaves
\* no row in tasks or event_map for the parent or any of its subtasks.
C5_RoundTrip ==
    C5_CreateThenDelete =>
        /\ Len(result.deleted) = prevDone.n
        /\ Cardinality(Ids(result.deleted)) = prevDone.n
        /\ Ids(result.deleted) = SeqToSet(lastDone.subs)
        /\ result.skipped = <<>>
        /\ result.errors = <<>>
        /\ lastDone.id \notin DOMAIN tasks \cup DOMAIN event_map
        /\ ChildrenOf(tasks, lastDone.id) = {}
        /\ Ids(result.deleted) \cap (DOMAIN tasks \cup DOMAIN event_map) = {}

\* C5: the round trip with the largest family
C5_Witness ==
    /\ C5_CreateThenDelete
    /\ prevDone.n = MaxSub
    /\ Len(result.deleted) = MaxSub

\* C6: the subtasks the bridge confirmed in the last create_complex_task call
C6_S == {id \in DOMAIN lastDone.outcomes : lastDone.outcomes[id] = "created"}
C6_InS(id) == id \in C6_S
C6_NotInS(id) == id \notin C6_S
C6_TaskIds(entries) == [i \in 1..Len(entries) |-> entries[i].task_id]

\* C6: a valid create_complex_task call has returned and its transaction
\* committed
C6_ComplexCommitted ==
    /\ pc = "idle"
    /\ lastDone.op = "create_complex_task"
    /\ lastDone.valid
    /\ lastDone.committed

\* C6: with S the subtasks the bridge confirmed, a create_complex_task call
\* has run a POST for every subtask in order and none for the parent, created
\* lists exactly S and failed exactly the rest, tasks holds the parent row
\* with parent_id null and a row under the parent for every member of S,
\* event_map holds the row of every member of S with the event id returned and
\* no row for the parent; when the store held no row of the family before the
\* call, the family's rows in tasks and in event_map are exactly those of S.
C6_PartialCreate ==
    C6_ComplexCommitted =>
        /\ lastDone.posted = lastDone.subs
        /\ lastDone.id \notin SeqToSet(lastDone.posted)
        /\ C6_TaskIds(result.created) = SelectSeq(lastDone.subs, C6_InS)
        /\ C6_TaskIds(result.failed) = SelectSeq(lastDone.subs, C6_NotInS)
        /\ result.success = (result.failed = <<>>)
        /\ lastDone.id \in DOMAIN tasks
        /\ tasks[lastDone.id].parent_id = NULL
        /\ lastDone.id \notin DOMAIN event_map
        /\ \A i \in 1..Len(result.created) :
              LET e == result.created[i]
              IN  /\ e.task_id \in DOMAIN tasks
                  /\ tasks[e.task_id].parent_id = lastDone.id
                  /\ e.task_id \in DOMAIN event_map
                  /\ event_map[e.task_id] = MapRow(Calendar, e.calendar_event_id)
        /\ lastDone.fresh =>
              /\ ChildrenOf(tasks, lastDone.id) = C6_S
              /\ SeqToSet(lastDone.subs) \cap DOMAIN event_map = C6_S
              /\ SeqToSet(lastDone.subs) \cap DOMAIN tasks = C6_S

\* C6: a call in which the bridge confirmed some subtasks and refused others
C6_Witness ==
    /\ C6_ComplexCommitted
    /\ lastDone.fresh
    /\ result.created # <<>>
    /\ result.failed # <<>>

-----------------------------------------------------------------------------
(* C20: an input that pre-flight validation rejects *)

\* the faults the contract lists, read off the input itself
C20_BadSlot(slot) == Len(slot) = 2 /\ slot[1] >= slot[2]
C20_SimpleFault(ta) ==
    \/ ta.type # "simple"
    \/ ta.parent_id # NULL
    \/ ta.calendar = ""
    \/ ta.title = ""
    \/ ta.id = ""
    \/ C20_BadSlot(ta.slot)
C20_SubtaskFault(st, parent_id) ==
    \/ st.title = ""
    \/ st.id = ""
    \/ st.parent_id # parent_id
    \/ C20_BadSlot(st.slot)
C20_ComplexFault(ta) ==
    \/ ta.type # "complex"
    \/ ta.parent_id # NULL
    \/ ta.calendar = ""
    \/ ta.title = ""
    \/ ta.id = ""
    \/ Len(ta.subtasks) \notin 1..5
    \/ \E i \in 1..Len(ta.subtasks) : C20_SubtaskFault(ta.subtasks[i], ta.id)

\* the call has returned failure, no POST retry loop was entered and no row of
\* tasks or event_map was inserted, replaced or removed
C20_FailedUntouched ==
    /\ pc' = "idle"
    /\ result'.success = FALSE
    /\ result'.error # NULL
    /\ posted' = <<>>
    /\ lastDone'.posted = <<>>
    /\ tasks' = tasks
    /\ event_map' = event_map
    /\ txTasks' = tasks
    /\ txMap' = event_map

\* C20: when create_simple_task or create_complex_task is called with an
\* input that has one of the listed faults (wrong type, non-null parent_id,
\* empty calendar, title or id, a slot with start >= end, a subtask whose
\* parent_id is not the parent's id, a subtask count outside 1..5), the call
\* returns failure, sends no POST to the bridge and leaves every row of tasks
\* and event_map as it was.
C20_RejectedLeavesNoTrace ==
    [][ /\ \A ta \in SimpleInputs :
              C20_SimpleFault(ta) /\ CreateSimpleTask(ta) => C20_FailedUntouched
        /\ \A ta \in ComplexInputs :
              C20_ComplexFault(ta) /\ CreateComplexTask(ta) => C20_FailedUntouched ]_vars

\* C20: a complex task of six subtasks has been rejected while the store
\* holds rows of an earlier call
C20_Witness ==
    /\ lastDone.op = "create_complex_task"
    /\ ~lastDone.valid
    /\ lastDone.unchanged
    /\ result.kind = "ComplexResult"
    /\ result.success = FALSE
    /\ result.error = "Complex task cannot have more than 5 subtasks"
    /\ result.created = <<>>
    /\ DOMAIN tasks # {}
    /\ DOMAIN event_map # {}
    /\ pc = "idle"

-----------------------------------------------------------------------------
(* C24: the order of the bridge writes and of the store write in            *)
(* create_complex_task                                                       *)

C24_InComplex == pc = "post" /\ req.op = "create_complex_task"

\* while the call is posting: the subtasks whose retry loop was entered are
\* the first ones of the request in its order, the loop in progress is the
\* last of them, and every one before it has its outcome
C24_PostsInOrder ==
    C24_InComplex =>
        /\ posted # <<>>
        /\ posted = SubSeq(req.subs, 1, Len(posted))
        /\ Len(queue) = Len(req.subs) - Len(posted) + 1
        /\ Head(queue).id = posted[Len(posted)]
        /\ \A i \in 1..(Len(posted) - 1) : posted[i] \in DOMAIN outcomes
        /\ Len(created) + Len(failed) = Len(posted) - 1
        /\ tasks = txTasks
        /\ event_map = txMap

\* one step of the call: another attempt for the same subtask, or the first
\* attempt of the next one after the last attempt of this one, or the end of
\* the call; the store changes in the step that ends the call only, after
\* the last subtask's last attempt, and not at all on a store error
C24_Step ==
    C24_InComplex =>
        \/ /\ pc' = "post"
           /\ queue' = queue
           /\ attempt' = attempt + 1
           /\ posted' = posted
           /\ tasks' = tasks /\ event_map' = event_map
        \/ /\ pc' = "post"
           /\ Len(queue) > 1
           /\ queue' = Tail(queue)
           /\ attempt' = 0
           /\ posted' = Append(posted, queue[2].id)
           /\ Head(queue).id \in DOMAIN outcomes'
           /\ tasks' = tasks /\ event_map' = event_map
        \/ /\ pc' = "idle"
           /\ Len(queue) = 1
           /\ lastDone'.posted = req.subs
           /\ DOMAIN lastDone'.outcomes = SeqToSet(req.subs)
           /\ IF lastDone'.committed
              THEN /\ tasks' = ComplexCommitTasks(tasks, req.input, result'.created)
                   /\ event_map' = ComplexUpsertMap(event_map, req.input, result'.created)
              ELSE /\ tasks' = tasks /\ event_map' = event_map
                   /\ result'.success = FALSE

\* C24: in create_complex_task the POSTs are issued in subtask order, the
\* attempts of one subtask (retries included) end before the first attempt
\* of the next, no row of tasks or event_map is written before the bridge
\* write of every subtask has been attempted, and all rows of the request
\* are then committed in one transaction, which leaves the store as it was
\* when a store error occurs.
C24_PostsThenOneTransaction == [](C24_PostsInOrder) /\ [][C24_Step]_vars

\* C24: a call of two subtasks has ended in a store error after the bridge
\* created an event for each of them
C24_Witness ==
    /\ lastDone.op = "create_complex_task"
    /\ lastDone.valid
    /\ ~lastDone.committed
    /\ lastDone.unchanged
    /\ Len(lastDone.posted) = 2
    /\ Len(result.created) = 2
    /\ pc = "idle"

-----------------------------------------------------------------------------
(* C27: parent rows and the rows of their children *)

\* C27, as the specification states it: every tasks row with a non-null
\* parent_id refers to a parent row that exists in tasks, after any sequence
\* of create and delete calls with any bridge outcomes.
C27_ChildHasParentRow ==
    \A id \in DOMAIN tasks :
        tasks[id].parent_id # NULL => tasks[id].parent_id \in DOMAIN tasks

\* the rows whose parent_id names no row
C27_Orphans(T) == {id \in DOMAIN T : T[id].parent_id # NULL /\ T[id].parent_id \notin DOMAIN T}

\* C27, what the code does keep: a row loses its parent only in a delete call
\* that lists that row in its errors.
C27_OrphansAreReportedErrors ==
    [][ C27_Orphans(tasks') \ C27_Orphans(tasks) # {} =>
            /\ result'.kind = "DeleteResult"
            /\ C27_Orphans(tasks') \ C27_Orphans(tasks)
                   \subseteq {result'.errors[i].task_id : i \in 1..Len(result'.errors)} ]_vars

-----------------------------------------------------------------------------
(* helper_app.py's GET /events behind _fetch_events_for_window.  An event of *)
(* the event store is its title, its two instants (minutes of UTC since the  *)
(* midnight that begins day 0) and its calendar's title and identifier; the  *)
(* store lists its events in the order they were saved.  The agent and the   *)
(* bridge run on one machine (127.0.0.1), so they share the UTC offset.      *)

StoreEvent(title, start, end, calendar, calendar_id) ==
    [title |-> title, start |-> start, end |-> end, calendar |-> calendar,
     calendar_id |-> calendar_id]

\* datetime.fromtimestamp(..., tz=timezone.utc).astimezone()
AsMachineTime(instant, local) == Aware(instant + local, local)

\* days_span = (end_dt - start_dt).days + 1; min(max(days_span, 1), 365)
days_to_fetch(start_iso, end_iso, local) ==
    LET start_dt == Localize(start_iso, local)
        end_dt == Localize(end_iso, local)
        days_span == ((Instant(end_dt) - Instant(start_dt)) \div MinutesPerDay) + 1
    IN  Min(Max(days_span, 1), 365)

\* events(days): the events of every calendar that fall between now and
\* now + days, by their start, spelled in the machine's time
events(store, days, now, local) ==
    LET start == now
        end == start + days * MinutesPerDay
        matching == SelectSeq(store, LAMBDA e : e.start < end /\ e.end > start)
        evs == SortByKey(matching, [i \in 1..Len(matching) |-> <<matching[i].start>>])
    IN  [i \in 1..Len(evs) |->
            Event(evs[i].title, AsMachineTime(evs[i].start, local),
                  AsMachineTime(evs[i].end, local), evs[i].calendar)]

\* requests.get(".../events", params={"days": days_to_fetch, "calendar_id": ...});
\* the endpoint has no calendar_id parameter
get_events(store, calendar_id, start_iso, end_iso, now, local) ==
    [kind |-> "ok", events |-> events(store, days_to_fetch(start_iso, end_iso, local),
                                      now, local)]

\* 10:00 and 23:30 of day 0 in New York
FwNows == {900, 1710}
\* 11:00-22:00 of day 0, 09:00-17:00 of day 3, 09:00 of day 1 to 17:00 of day 3
FwWindowTimes == {<<660, 1320>>, <<4860, 5340>>, <<1980, 5340>>}
WorkId == "cal-work"
\* day 0 12:00-13:00, day 1 08:00-09:30, day 3 10:00-11:00, 10:30-11:00 and
\* 14:00-15:00 and all of day 3, in New York time
StorePool ==
    { StoreEvent("standup", 1020, 1080, "Work", WorkId),
      StoreEvent("breakfast", 2220, 2310, "Work", WorkId),
      StoreEvent("offsite", 5220, 5280, "Work", WorkId),
      StoreEvent("dentist", 5250, 5280, "Home", "cal-home"),
      StoreEvent("review", 5460, 5520, "Work", WorkId),
      StoreEvent("Thanksgiving", 4620, 6060, "US Holidays", "cal-holidays") }
Stores(n) == {l \in UNION {[1..k -> StorePool] : k \in 0..n} : NoDup(l)}

FWInput(store, now, local, calendar_id, start_iso, end_iso) ==
    [kind |-> "call", store |-> store, now |-> now, local |-> local,
     calendar_id |-> calendar_id, start_iso |-> start_iso, end_iso |-> end_iso]

InitFW ==
    /\ InitEC /\ RetryIdle /\ SchedIdle /\ TAIdle /\ TSIdle /\ TDIdle /\ LDIdle
    /\ PLIdle /\ CCIdle
    /\ fwIn \in {FWInput(store, now, -300, WorkId, MkDt(w[1], z), MkDt(w[2], z)) :
                    store \in Stores(MaxEvents), now \in FwNows, w \in FwWindowTimes,
                    z \in TAZones}
    /\ fwOut = NoSched

\* lines 354-356 of schedule_simple_task: fetch the events of the window
\* and take the free time between them
FetchEventsForWindow ==
    /\ fwOut = NoSched
    /\ LET response == get_events(fwIn.store, fwIn.calendar_id, fwIn.start_iso,
                                  fwIn.end_iso, fwIn.now, fwIn.local)
           fetched == fetch_events_for_window(response, fwIn.start_iso, fwIn.end_iso,
                                              fwIn.local)
       IN  fwOut' = [kind |-> "ok", events |-> fetched,
                     free_slots |-> calculate_free_slots(fetched, fwIn.start_iso,
                                                         fwIn.end_iso, fwIn.local)]
    /\ UNCHANGED fwIn

NextFW ==
    \/ FetchEventsForWindow
          /\ UNCHANGED <<ecVars, retryVars, schedVars, taVars, tsVars, tdVars, ldVars,
                         plVars, ccVars>>

SpecFW == InitFW /\ [][NextFW]_vars

C28_Ws == Instant(Localize(fwIn.start_iso, fwIn.local))
C28_We == Instant(Localize(fwIn.end_iso, fwIn.local))
\* the events of the chosen calendar that take time of the placement window
C28_InWindow(e) ==
    /\ e.calendar_id = fwIn.calendar_id
    /\ e.calendar \notin HolidayCalendars
    /\ e.start < C28_We /\ e.end > C28_Ws
C28_Returned(e) ==
    \E i \in 1..Len(fwOut.events) :
        /\ fwOut.events[i].title = e.title
        /\ Instant(fwOut.events[i].start_iso) = e.start
        /\ Instant(fwOut.events[i].end_iso) = e.end
C28_Busy(e) ==
    \A i \in 1..Len(fwOut.free_slots) :
        \/ Instant(fwOut.free_slots[i][2]) <= e.start
        \/ Instant(fwOut.free_slots[i][1]) >= e.end
\* the span the bridge looks at: from now, for days_to_fetch days
C28_InRequest(e) ==
    /\ e.end > fwIn.now
    /\ e.start < fwIn.now
          + days_to_fetch(fwIn.start_iso, fwIn.end_iso, fwIn.local) * MinutesPerDay

\* C28, as the specification states it: every non-holiday event of the chosen
\* calendar that overlaps the placement window [W_s, W_e] is returned by
\* _fetch_events_for_window and is busy time, also when W_s lies days after
\* the current instant (the windows that begin before it are left out)
C28_WindowCovered ==
    fwOut # NoSched /\ C28_Ws >= fwIn.now =>
        \A i \in 1..Len(fwIn.store) :
            C28_InWindow(fwIn.store[i]) =>
                C28_Returned(fwIn.store[i]) /\ C28_Busy(fwIn.store[i])

\* what the code keeps: the events of the window that also fall in the
\* days_to_fetch days that begin now are returned and are busy time
C28_CoveredWithinRequestedDays ==
    fwOut # NoSched =>
        \A i \in 1..Len(fwIn.store) :
            C28_InWindow(fwIn.store[i]) /\ C28_InRequest(fwIn.store[i]) =>
                C28_Returned(fwIn.store[i]) /\ C28_Busy(fwIn.store[i])

-----------------------------------------------------------------------------
(* Two runs of run_pipeline for simple tasks against one event store: each   *)
(* run is a process of its own, so the steps of the two interleave freely.   *)
(* A step is one stage: Time Allotment with its GET /events, or the Event    *)
(* Creator with its POST /add.                                               *)

\* POST /add: the event is saved to the calendar of the given identifier
add(store, title, start_iso, end_iso, calendar_id, local) ==
    Append(store, StoreEvent(title, Instant(Localize(start_iso, local)),
                             Instant(Localize(end_iso, local)), "Work", calendar_id))

Requests == {1, 2}
Other(r) == 3 - r
\* 11:00-22:00 and 12:00-15:00 of day 0, asked at 10:00 in New York
CcNow == Instant(Aware(600, -300))
CcWindowTimes == {<<660, 1320>>, <<720, 900>>}
CcQuery(td, ts) == [td |-> td, ts |-> ts]
CcQueries ==
    {CcQuery(TDOutput("simple", <<WorkId>>, <<title>>, d),
             TSOutput(<<MkDt(w[1], z)>>, <<MkDt(w[2], z)>>, <<>>)) :
        title \in {"Call mom"}, d \in {<<>>, <<D90>>}, w \in CcWindowTimes,
        z \in TAZones}

InitCC ==
    /\ InitEC /\ RetryIdle /\ SchedIdle /\ TAIdle /\ TSIdle /\ TDIdle /\ LDIdle
    /\ PLIdle /\ FWIdle
    /\ ccStore \in Stores(1)
    /\ ccIn \in [Requests -> CcQueries]
    /\ ccPc = [r \in Requests |-> "ta"]
    /\ ccTa = [r \in Requests |-> NoSched]

\* run_pipeline, step 7: schedule_simple_task on the events the bridge
\* holds at this moment; without a TA output step 8 creates nothing
CCStepTA(r) ==
    /\ ccPc[r] = "ta"
    /\ LET ts == ccIn[r].ts
           response == get_events(ccStore, ccIn[r].td.calendar[1], ts.start[1],
                                  ts.end[1], CcNow, -300)
           ta_result == schedule_simple_task(ccIn[r].td, ts, response, -300)
       IN  /\ ccTa' = [ccTa EXCEPT ![r] = ta_result]
           /\ ccPc' = [ccPc EXCEPT ![r] = IF ta_result.kind = "ScheduledSimpleTask"
                                          THEN "ec" ELSE "done"]
    /\ UNCHANGED <<ccStore, ccIn>>

\* run_pipeline, step 8: create_simple_task; the POST with its retries
\* ends with the event saved or with an error
CCStepEC(r, saved) ==
    /\ ccPc[r] = "ec"
    /\ LET ta == ccTa[r]
           valid == ValidateSimpleTask([ta EXCEPT !.slot = <<ta.slot[1].t, ta.slot[2].t>>])
       IN  IF valid = "ok" /\ saved
           THEN /\ ccStore' = add(ccStore, ta.title, ta.slot[1], ta.slot[2], ta.calendar,
                                  -300)
                /\ ccPc' = [ccPc EXCEPT ![r] = "created"]
           ELSE /\ ccPc' = [ccPc EXCEPT ![r] = "failed"]
                /\ UNCHANGED ccStore
    /\ UNCHANGED <<ccIn, ccTa>>

NextCC ==
    \/ \E r \in Requests :
          CCStepTA(r)
              /\ UNCHANGED <<ecVars, retryVars, schedVars, taVars, tsVars, tdVars,
                             ldVars, plVars, fwVars>>
    \/ \E r \in Requests, saved \in BOOLEAN :
          CCStepEC(r, saved)
              /\ UNCHANGED <<ecVars, retryVars, schedVars, taVars, tsVars, tdVars,
                             ldVars, plVars, fwVars>>

SpecCC == InitCC /\ [][NextCC]_vars

\* the slots of two requests take no minute in common
C29_Apart(slot1, slot2) ==
    \/ Instant(slot1[2]) <= Instant(slot2[1])
    \/ Instant(slot2[2]) <= Instant(slot1[1])

\* C29, as the specification states it: in every interleaving of the TA
\* fetches and the EC writes of two concurrent pipeline requests, the events
\* the two create on the calendar do not overlap each other in time
C29_CreatedEventsApart ==
    ccPc # NoSched /\ ccPc[1] = "created" /\ ccPc[2] = "created" =>
        C29_Apart(ccTa[1].slot, ccTa[2].slot)

\* what the code keeps: a request whose Time Allotment stage runs after the
\* other request's event was saved gets a slot apart from that event
C29_FetchAfterWriteApart ==
    [][ \A r \in Requests :
            /\ ccPc # NoSched
            /\ ccPc[Other(r)] = "created"
            /\ ccPc[r] = "ta" /\ ccPc'[r] = "ec"
            => C29_Apart(ccTa'[r].slot, ccTa[Other(r)].slot) ]_vars

=============================================================================
